---- MODULE Spec2Model ----
(***************************************************************************)
(* Graph mutation and correction engine of diagmind:                       *)
(*   - Graph (src/diagmind/graph/graph.py): node map, ordered edge list,   *)
(*     remove_node, apply_instruction, apply_validator_response;           *)
(*   - the validation loop of scripts/demo_pipeline.py.                    *)
(*                                                                         *)
(* Python values are represented as follows.                               *)
(*   Optional[str]  : <<>> for None, <<s>> for the string s.               *)
(*   edge_id        : a record [kind, val]; kind "none" is None, kind      *)
(*                    "int" an integer, kind "str" a value of a dict       *)
(*                    passed to apply_instruction that is no number (the   *)
(*                    comparison edge_id < 1 then raises TypeError).       *)
(*   Node           : [id, type, label]; Edge: [source, target, family,    *)
(*                    operator].  The attribute sub-records are never read *)
(*                    or written by the operations modelled here.          *)
(*   Graph.nodes    : a function whose DOMAIN is the set of keys.          *)
(*   Graph.edges    : a sequence (1-indexed, as the instructions address   *)
(*                    it).                                                 *)
(*   audit entries  : records with the keys the code writes; the f-string  *)
(*                    reasons are kept up to their fixed prefix.           *)
(***************************************************************************)
EXTENDS Integers, Sequences, FiniteSets, TLC

VARIABLES
    nodes,              \* Graph.nodes
    edges,              \* Graph.edges
    audit_log,          \* the audit_log list handed to apply_*
    call,               \* the operation last invoked, with its arguments
    ret,                \* what that operation returned
    before,             \* Graph.nodes / Graph.edges when it was invoked
    pc,                 \* position of the driver (harness or validation loop)
    iteration,          \* demo_pipeline.py: iteration
    all_warnings,       \* demo_pipeline.py: all_warnings
    validator_response, \* demo_pipeline.py: validator_response of the round
    should_continue,    \* demo_pipeline.py: should_continue of the round
    calls,              \* number of parse(... ValidatorResponse) calls made
    initial,            \* the graph the driver started from
    stubborn,           \* every response so far: needs_correction, HarmlessBatch
    written,            \* every Node handed to add_node / add_nodes, in order
    metadata,           \* Diagram.metadata
    constraints,        \* Diagram.constraints
    entities            \* LayoutPlan.entities

vars == <<nodes, edges, audit_log, call, ret, before, pc, iteration,
          all_warnings, validator_response, should_continue, calls, initial,
          stubborn, written, metadata, constraints, entities>>

\* what the Graph operations and the validation loop never touch
restVars == <<written, metadata, constraints, entities>>

loopVars == <<iteration, all_warnings, validator_response, should_continue, calls,
              stubborn>>

(***************************************************************************)
(* Bounds of the model.                                                    *)
(***************************************************************************)
MaxEdges == 3
MaxBatch == 2
MaxIterations == 3
MaxWritten == 3
MaxEntities == 3
MaxConstraints == 2
RecursionLimit == 6

(***************************************************************************)
(* Values.                                                                 *)
(***************************************************************************)
None == <<>>
Some(v) == <<v>>

NoEdgeId == [kind |-> "none", val |-> 0]
IntEdgeId(n) == [kind |-> "int", val |-> n]
StrEdgeId == [kind |-> "str", val |-> 0]

NodeIds == {"a", "b", "c"}
Labels == {"L1", "L2"}
Operators == {"causes", "flows_to"}

NodeTypeOf(id) == IF id = "a" THEN "entity" ELSE IF id = "b" THEN "process" ELSE "state"

Node(id, label) == [id |-> id, type |-> NodeTypeOf(id), label |-> label]

Edge(s, t, f, o) == [source |-> s, target |-> t, family |-> f, operator |-> o]

\* The edges a producer hands to add_edges in this model.
EdgePool ==
    { Edge("a", "b", "structural", "causes"),
      Edge("b", "c", "causal", "flows_to"),
      Edge("c", "a", "process", "causes") }

EdgeLists == UNION { [1..n -> EdgePool] : n \in 0..MaxEdges }

\* Node maps: any subset of the ids may be missing, so edges may dangle.
NodeMaps == UNION { {[id \in S |-> Node(id, "L1")]} : S \in SUBSET NodeIds }

(***************************************************************************)
(* Graph.add_node, Graph.add_nodes                                         *)
(***************************************************************************)
\* a Node whose type is chosen freely (Node ties the type to the id)
NodeValue(id, type, label) == [id |-> id, type |-> type, label |-> label]

\* faulty variant: an existing key keeps its value (dict.setdefault)
DictSetDefault(d, k, v) ==
    [id \in (DOMAIN d) \cup {k} |-> IF id \in DOMAIN d THEN d[id] ELSE v]

\* d[k] = v
DictSet(d, k, v) == [id \in (DOMAIN d) \cup {k} |-> IF id = k THEN v ELSE d[id]]

add_node(ns, node) == DictSet(ns, node.id, node)

\* the loop "for node in nodes" from its i-th element on
RECURSIVE add_nodes_from(_, _, _)
add_nodes_from(ns, list, i) ==
    IF i > Len(list) THEN ns
    ELSE add_nodes_from(DictSet(ns, list[i].id, list[i]), list, i + 1)

add_nodes(ns, list) == add_nodes_from(ns, list, 1)

(***************************************************************************)
(* Graph.remove_node                                                       *)
(***************************************************************************)
DictDel(d, k) == [id \in (DOMAIN d) \ {k} |-> d[id]]

IsConnected(edge, node_id) == edge.source = node_id \/ edge.target = node_id


\* faulty variant: only the edges leaving the node are dropped
KeepEdgeBySource(edge, node_id) == edge.source # node_id

KeepEdge(edge, node_id) == edge.source # node_id /\ edge.target # node_id

\* faulty variant: the node is deleted, its edges stay
remove_node_without_cascade(ns, es, node_id) ==
    IF node_id \notin DOMAIN ns
    THEN [nodes |-> ns, edges |-> es, result |-> FALSE]
    ELSE [nodes |-> DictDel(ns, node_id), edges |-> es, result |-> TRUE]

remove_node(ns, es, node_id) ==
    IF node_id \notin DOMAIN ns
    THEN [nodes |-> ns, edges |-> es, result |-> FALSE]
    ELSE [nodes |-> DictDel(ns, node_id),
          edges |-> SelectSeq(es, LAMBDA edge : KeepEdge(edge, node_id)),
          result |-> TRUE]

(***************************************************************************)
(* Graph.add_edges, Graph.add_edge, Graph.remove_edge                      *)
(***************************************************************************)

\* faulty variant: the new edges are put in front of the list
add_edges_in_front(es, list) == list \o es

\* self.edges.extend(edges)
add_edges(es, list) == es \o list

\* self.edges.append(edge)
add_edge(es, edge) == Append(es, edge)

\* faulty variant: the operator given is not compared
MatchesEndpoints(edge, source, target, operator) ==
    edge.source = source /\ edge.target = target

\* the condition negated in the comprehension of remove_edge; operator is an
\* Optional[str]
Matches(edge, source, target, operator) ==
    /\ edge.source = source
    /\ edge.target = target
    /\ (operator = None \/ edge.operator = operator[1])

remove_edge(es, source, target, operator) ==
    LET initial_count == Len(es)
        kept == SelectSeq(es, LAMBDA edge : ~Matches(edge, source, target, operator))
    IN  [edges |-> kept, result |-> Len(kept) < initial_count]

(***************************************************************************)
(* Graph.__str__, Graph.get_all_edges: the edge listings.  A listing is a  *)
(* record [status, lines]; lines holds, per edge, its number and the       *)
(* labels and operator printed.  The Node and Edge records of the model    *)
(* leave out the attributes sub-model; here the declared fields count.     *)
(***************************************************************************)
\* the fields class Edge declares
EdgeFields == {"source", "target", "family", "operator", "attributes"}

\* the fields of class Node that have no default
RequiredNodeFields == {"id", "type", "label", "attributes"}

Listed(lines) == [status |-> "ok", lines |-> lines]

Raised(exception) == [status |-> exception, lines |-> <<>>]

ListingLine(i, source, operator, target) ==
    [index |-> i, source |-> source, operator |-> operator, target |-> target]

\* the listing of the lines line[1..n], or the first exception a line raises
ListingOf(n, line) ==
    IF \E i \in 1..n : line[i].status # "ok"
    THEN Raised(line[CHOOSE i \in 1..n :
                        /\ line[i].status # "ok"
                        /\ \A j \in 1..(i - 1) : line[j].status = "ok"].status)
    ELSE Listed([i \in 1..n |-> line[i].line])

\* self.nodes.get(id) and the f-string made of it in __str__
NodeStr(ns, id) == IF id \in DOMAIN ns THEN ns[id].label ELSE "Unknown"

\* one pass of the loop of __str__: edge.birectional is read in line 119
StrLine(ns, edge, i) ==
    IF "birectional" \in EdgeFields
    THEN [status |-> "ok",
          line |-> ListingLine(i, NodeStr(ns, edge.source), edge.operator,
                               NodeStr(ns, edge.target))]
    ELSE [status |-> "AttributeError", line |-> ListingLine(i, "", "", "")]

graph_str(ns, es) ==
    IF Len(es) = 0 THEN Listed(<<>>)
    ELSE ListingOf(Len(es), [i \in 1..Len(es) |-> StrLine(ns, es[i], i)])

\* Node(id=..., type="entity", label=...): the keyword arguments given
FallbackNodeFields == {"id", "type", "label"}

\* self.nodes.get(id, Node(id=id, type="entity", label=id)).label: the
\* default is built before get is called
LabelOrDefault(ns, id) ==
    IF RequiredNodeFields \subseteq FallbackNodeFields
    THEN [status |-> "ok", label |-> IF id \in DOMAIN ns THEN ns[id].label ELSE id]
    ELSE [status |-> "ValidationError", label |-> ""]

\* one pass of the loop of get_all_edges (lines 134-137)
EdgesLine(ns, edge, i) ==
    LET source_label == LabelOrDefault(ns, edge.source)
        target_label == LabelOrDefault(ns, edge.target)
    IN  IF source_label.status # "ok"
        THEN [status |-> source_label.status, line |-> ListingLine(i, "", "", "")]
        ELSE IF target_label.status # "ok"
        THEN [status |-> target_label.status, line |-> ListingLine(i, "", "", "")]
        ELSE IF "birectional" \notin EdgeFields
        THEN [status |-> "AttributeError", line |-> ListingLine(i, "", "", "")]
        ELSE [status |-> "ok",
              line |-> ListingLine(i, source_label.label, edge.operator, target_label.label)]

get_all_edges(ns, es) ==
    IF Len(es) = 0 THEN Listed(<<>>)
    ELSE ListingOf(Len(es), [i \in 1..Len(es) |-> EdgesLine(ns, es[i], i)])

(***************************************************************************)
(* Graph.apply_instruction                                                 *)
(***************************************************************************)
Instruction(action) ==
    [action |-> action, edge_id |-> NoEdgeId, node_id |-> None,
     source_node_id |-> None, target_node_id |-> None,
     new_relation |-> None, new_label |-> None, reason |-> "why"]

\* Outcome of apply_instruction: the graph, the log and the return value.
Outcome(ns, es, log, result) ==
    [nodes |-> ns, edges |-> es, audit_log |-> log, result |-> result]

\* edge_id < 1 or edge_id > len(self.edges) raises TypeError for a value
\* that is no number.
EdgeIdRaises(edge_id) == edge_id.kind = "str"

InvalidEdgeId(edge_id, es) ==
    edge_id.kind = "none" \/ edge_id.val < 1 \/ edge_id.val > Len(es)

\* self.edges.pop(i - 1)
Pop(es, i) == [j \in 1..(Len(es) - 1) |-> IF j < i THEN es[j] ELSE es[j + 1]]

\* "x in self.nodes" for an Optional[str] x (None is never a key)
InNodes(x, ns) == x # None /\ x[1] \in DOMAIN ns

\* faulty variant: a caught exception is audited as a plain failure
ExceptionEntryFailed(action) ==
    [action |-> action, status |-> "failed", reason |-> "Exception"]

ExceptionEntry(action) ==
    [action |-> action, status |-> "error", reason |-> "Exception"]

FailedEntry(action, reason) ==
    [action |-> action, status |-> "failed", reason |-> reason]


\* faulty variant: source is overwritten before target is read from it
apply_reverse_edge_in_turn(ns, es, instruction, log) ==
    LET action == instruction.action
        edge_id == instruction.edge_id
    IN  IF EdgeIdRaises(edge_id)
        THEN Outcome(ns, es, Append(log, ExceptionEntry(action)), FALSE)
        ELSE IF InvalidEdgeId(edge_id, es)
        THEN Outcome(ns, es, Append(log, FailedEntry(action, "Invalid edge_id")), FALSE)
        ELSE LET edge == es[edge_id.val]
                 swapped == [edge EXCEPT !.source = edge.target]
             IN  Outcome(ns, [es EXCEPT ![edge_id.val] = swapped],
                         Append(log, [action |-> action, edge_id |-> edge_id.val,
                                      status |-> "applied", reason |-> instruction.reason]),
                         TRUE)

\* faulty variant: the reversed edge is taken out and put back at the end
apply_reverse_edge_at_end(ns, es, instruction, log) ==
    LET action == instruction.action
        edge_id == instruction.edge_id
    IN  IF EdgeIdRaises(edge_id)
        THEN Outcome(ns, es, Append(log, ExceptionEntry(action)), FALSE)
        ELSE IF InvalidEdgeId(edge_id, es)
        THEN Outcome(ns, es, Append(log, FailedEntry(action, "Invalid edge_id")), FALSE)
        ELSE LET edge == es[edge_id.val]
                 swapped == [edge EXCEPT !.source = edge.target, !.target = edge.source]
             IN  Outcome(ns, Append(Pop(es, edge_id.val), swapped),
                         Append(log, [action |-> action, edge_id |-> edge_id.val,
                                      status |-> "applied", reason |-> instruction.reason]),
                         TRUE)

apply_reverse_edge(ns, es, instruction, log) ==
    LET action == instruction.action
        edge_id == instruction.edge_id
    IN  IF EdgeIdRaises(edge_id)
        THEN Outcome(ns, es, Append(log, ExceptionEntry(action)), FALSE)
        ELSE IF InvalidEdgeId(edge_id, es)
        THEN Outcome(ns, es, Append(log, FailedEntry(action, "Invalid edge_id")), FALSE)
        ELSE LET edge == es[edge_id.val]
                 swapped == [edge EXCEPT !.source = edge.target, !.target = edge.source]
             IN  Outcome(ns, [es EXCEPT ![edge_id.val] = swapped],
                         Append(log, [action |-> action, edge_id |-> edge_id.val,
                                      status |-> "applied", reason |-> instruction.reason]),
                         TRUE)

apply_remove_edge(ns, es, instruction, log) ==
    LET action == instruction.action
        edge_id == instruction.edge_id
    IN  IF EdgeIdRaises(edge_id)
        THEN Outcome(ns, es, Append(log, ExceptionEntry(action)), FALSE)
        ELSE IF InvalidEdgeId(edge_id, es)
        THEN Outcome(ns, es, Append(log, FailedEntry(action, "Invalid edge_id")), FALSE)
        ELSE Outcome(ns, Pop(es, edge_id.val),
                     Append(log, [action |-> action, edge_id |-> edge_id.val,
                                  status |-> "applied", reason |-> instruction.reason]),
                     TRUE)


\* faulty variant: the family of the edge is overwritten as well
apply_change_relation_and_family(ns, es, instruction, log) ==
    LET action == instruction.action
        edge_id == instruction.edge_id
        new_relation == instruction.new_relation
    IN  IF EdgeIdRaises(edge_id)
        THEN Outcome(ns, es, Append(log, ExceptionEntry(action)), FALSE)
        ELSE IF InvalidEdgeId(edge_id, es)
        THEN Outcome(ns, es, Append(log, FailedEntry(action, "Invalid edge_id")), FALSE)
        ELSE IF new_relation = None
        THEN Outcome(ns, es, Append(log, FailedEntry(action, "Missing new_relation")), FALSE)
        ELSE LET edge == es[edge_id.val]
             IN  Outcome(ns, [es EXCEPT ![edge_id.val].operator = new_relation[1],
                                        ![edge_id.val].family = "causal"],
                         Append(log, [action |-> action, edge_id |-> edge_id.val,
                                      old_relation |-> edge.operator,
                                      new_relation |-> new_relation[1],
                                      status |-> "applied", reason |-> instruction.reason]),
                         TRUE)

apply_change_relation(ns, es, instruction, log) ==
    LET action == instruction.action
        edge_id == instruction.edge_id
        new_relation == instruction.new_relation
    IN  IF EdgeIdRaises(edge_id)
        THEN Outcome(ns, es, Append(log, ExceptionEntry(action)), FALSE)
        ELSE IF InvalidEdgeId(edge_id, es)
        THEN Outcome(ns, es, Append(log, FailedEntry(action, "Invalid edge_id")), FALSE)
        ELSE IF new_relation = None
        THEN Outcome(ns, es, Append(log, FailedEntry(action, "Missing new_relation")), FALSE)
        ELSE LET edge == es[edge_id.val]
             IN  Outcome(ns, [es EXCEPT ![edge_id.val].operator = new_relation[1]],
                         Append(log, [action |-> action, edge_id |-> edge_id.val,
                                      old_relation |-> edge.operator,
                                      new_relation |-> new_relation[1],
                                      status |-> "applied", reason |-> instruction.reason]),
                         TRUE)


\* faulty variant: only the source endpoint is redirected
RedirectSourceOnly(edge, source_node_id, target_node_id) ==
    [edge EXCEPT
        !.source = IF edge.source = source_node_id THEN target_node_id ELSE edge.source]

\* the loop "for edge in self.edges" of merge_nodes
Redirect(edge, source_node_id, target_node_id) ==
    [edge EXCEPT
        !.source = IF edge.source = source_node_id THEN target_node_id ELSE edge.source,
        !.target = IF edge.target = source_node_id THEN target_node_id ELSE edge.target]


\* faulty variant: the check "source_node_id == target_node_id" is missing
apply_merge_nodes_self(ns, es, instruction, log) ==
    LET action == instruction.action
        source_node_id == instruction.source_node_id
        target_node_id == instruction.target_node_id
    IN  IF ~InNodes(source_node_id, ns) \/ ~InNodes(target_node_id, ns)
        THEN Outcome(ns, es, Append(log, FailedEntry(action, "Invalid node IDs")), FALSE)
        ELSE Outcome(DictDel(ns, source_node_id[1]),
                     [i \in 1..Len(es) |-> Redirect(es[i], source_node_id[1], target_node_id[1])],
                     Append(log, [action |-> action,
                                  source_node_id |-> source_node_id[1],
                                  target_node_id |-> target_node_id[1],
                                  status |-> "applied", reason |-> instruction.reason]),
                     TRUE)

\* faulty variant: an edge that the merge turns into a self-loop is dropped
apply_merge_nodes_drops_loops(ns, es, instruction, log) ==
    LET action == instruction.action
        source_node_id == instruction.source_node_id
        target_node_id == instruction.target_node_id
    IN  IF ~InNodes(source_node_id, ns) \/ ~InNodes(target_node_id, ns)
        THEN Outcome(ns, es, Append(log, FailedEntry(action, "Invalid node IDs")), FALSE)
        ELSE IF source_node_id = target_node_id
        THEN Outcome(ns, es, Append(log, FailedEntry(action, "Cannot merge node with itself")), FALSE)
        ELSE Outcome(DictDel(ns, source_node_id[1]),
                     SelectSeq([i \in 1..Len(es) |->
                                    Redirect(es[i], source_node_id[1], target_node_id[1])],
                               LAMBDA edge : edge.source # edge.target),
                     Append(log, [action |-> action,
                                  source_node_id |-> source_node_id[1],
                                  target_node_id |-> target_node_id[1],
                                  status |-> "applied", reason |-> instruction.reason]),
                     TRUE)

apply_merge_nodes(ns, es, instruction, log) ==
    LET action == instruction.action
        source_node_id == instruction.source_node_id
        target_node_id == instruction.target_node_id
    IN  IF ~InNodes(source_node_id, ns) \/ ~InNodes(target_node_id, ns)
        THEN Outcome(ns, es, Append(log, FailedEntry(action, "Invalid node IDs")), FALSE)
        ELSE IF source_node_id = target_node_id
        THEN Outcome(ns, es, Append(log, FailedEntry(action, "Cannot merge node with itself")), FALSE)
        ELSE Outcome(DictDel(ns, source_node_id[1]),
                     [i \in 1..Len(es) |-> Redirect(es[i], source_node_id[1], target_node_id[1])],
                     Append(log, [action |-> action,
                                  source_node_id |-> source_node_id[1],
                                  target_node_id |-> target_node_id[1],
                                  status |-> "applied", reason |-> instruction.reason]),
                     TRUE)


\* faulty variant: the check of new_label comes too late, the label is
\* already cleared
apply_rename_node_clears(ns, es, instruction, log) ==
    LET action == instruction.action
        node_id == instruction.node_id
        new_label == instruction.new_label
    IN  IF ~InNodes(node_id, ns)
        THEN Outcome(ns, es, Append(log, FailedEntry(action, "Invalid node_id")), FALSE)
        ELSE IF new_label = None
        THEN Outcome([ns EXCEPT ![node_id[1]].label = ""], es,
                     Append(log, FailedEntry(action, "Missing new_label")), FALSE)
        ELSE Outcome([ns EXCEPT ![node_id[1]].label = new_label[1]], es,
                     Append(log, [action |-> action, node_id |-> node_id[1],
                                  old_label |-> ns[node_id[1]].label,
                                  new_label |-> new_label[1],
                                  status |-> "applied", reason |-> instruction.reason]),
                     TRUE)

apply_rename_node(ns, es, instruction, log) ==
    LET action == instruction.action
        node_id == instruction.node_id
        new_label == instruction.new_label
    IN  IF ~InNodes(node_id, ns)
        THEN Outcome(ns, es, Append(log, FailedEntry(action, "Invalid node_id")), FALSE)
        ELSE IF new_label = None
        THEN Outcome(ns, es, Append(log, FailedEntry(action, "Missing new_label")), FALSE)
        ELSE Outcome([ns EXCEPT ![node_id[1]].label = new_label[1]], es,
                     Append(log, [action |-> action, node_id |-> node_id[1],
                                  old_label |-> ns[node_id[1]].label,
                                  new_label |-> new_label[1],
                                  status |-> "applied", reason |-> instruction.reason]),
                     TRUE)


\* faulty variant: flag_error is audited but reports success
apply_flag_error_continues(ns, es, instruction, log) ==
    Outcome(ns, es,
            Append(log, [action |-> instruction.action, status |-> "error",
                         reason |-> instruction.reason,
                         message |-> "Pipeline halted due to validator error"]),
            TRUE)

apply_flag_error(ns, es, instruction, log) ==
    Outcome(ns, es,
            Append(log, [action |-> instruction.action, status |-> "error",
                         reason |-> instruction.reason,
                         message |-> "Pipeline halted due to validator error"]),
            FALSE)


\* faulty variant: an unknown action is ignored without an audit entry
apply_unknown_silent(ns, es, instruction, log) == Outcome(ns, es, log, FALSE)

apply_unknown(ns, es, instruction, log) ==
    Outcome(ns, es, Append(log, FailedEntry(instruction.action, "Unknown action")), FALSE)

apply_instruction(ns, es, instruction, log) ==
    LET action == instruction.action
    IN  IF action = "reverse_edge" THEN apply_reverse_edge(ns, es, instruction, log)
        ELSE IF action = "remove_edge" THEN apply_remove_edge(ns, es, instruction, log)
        ELSE IF action = "change_relation" THEN apply_change_relation(ns, es, instruction, log)
        ELSE IF action = "merge_nodes" THEN apply_merge_nodes(ns, es, instruction, log)
        ELSE IF action = "rename_node" THEN apply_rename_node(ns, es, instruction, log)
        ELSE IF action = "flag_error" THEN apply_flag_error(ns, es, instruction, log)
        ELSE apply_unknown(ns, es, instruction, log)

(***************************************************************************)
(* Graph.apply_validator_response                                          *)
(***************************************************************************)
\* key=lambda x: x.edge_id or 0  (ValidatorInstruction.edge_id: Optional[int])
SortKey(instruction) ==
    IF instruction.edge_id.kind = "int" THEN instruction.edge_id.val ELSE 0

\* One insertion of a stable sort by descending key: x goes behind every
\* element whose key is at least its own.
InsertDescending(sorted, x) ==
    LET k == Cardinality({j \in 1..Len(sorted) : SortKey(sorted[j]) >= SortKey(x)})
    IN  SubSeq(sorted, 1, k) \o <<x>> \o SubSeq(sorted, k + 1, Len(sorted))

RECURSIVE SortDescendingFrom(_, _, _)
SortDescendingFrom(seq, i, sorted) ==
    IF i > Len(seq) THEN sorted
    ELSE SortDescendingFrom(seq, i + 1, InsertDescending(sorted, seq[i]))


\* faulty variant: the removals are left in the order of the batch
SortRemovalsUnsorted(remove_instructions) == remove_instructions

\* faulty variant: sorted, but a position named twice is kept once
SortRemovalsDistinct(remove_instructions) ==
    LET sorted == SortDescendingFrom(remove_instructions, 1, <<>>)
        kept[i \in 0..Len(sorted)] ==
            IF i = 0 THEN <<>>
            ELSE IF i > 1 /\ sorted[i].edge_id = sorted[i - 1].edge_id THEN kept[i - 1]
            ELSE Append(kept[i - 1], sorted[i])
    IN  kept[Len(sorted)]

\* remove_instructions.sort(key=..., reverse=True): stable, descending
SortRemovals(remove_instructions) ==
    SortDescendingFrom(remove_instructions, 1, <<>>)

IsRemoveEdge(instruction) == instruction.action = "remove_edge"

IsOther(instruction) == instruction.action # "remove_edge"


\* faulty variant: the other instructions come first, the removals behind
AllInstructionsOthersFirst(instructions) ==
    SelectSeq(instructions, IsOther) \o SortRemovals(SelectSeq(instructions, IsRemoveEdge))

\* all_instructions = remove_instructions + other_instructions
AllInstructions(instructions) ==
    SortRemovals(SelectSeq(instructions, IsRemoveEdge)) \o SelectSeq(instructions, IsOther)


\* faulty variant: the halt check is missing
HaltsNever(result, instruction) == FALSE

\* faulty variant: any instruction that returns False ends the batch
HaltsOnFailure(result, instruction) == ~result

\* "if not result and instruction.action == 'flag_error': return False"
Halts(result, instruction) == ~result /\ instruction.action = "flag_error"

\* the loop "for instruction in all_instructions" from its i-th element on
RECURSIVE RunInstructions(_, _, _, _, _)
RunInstructions(ns, es, log, all_instructions, i) ==
    IF i > Len(all_instructions)
    THEN Outcome(ns, es, log, TRUE)
    ELSE LET o == apply_instruction(ns, es, all_instructions[i], log)
         IN  IF Halts(o.result, all_instructions[i])
             THEN Outcome(o.nodes, o.edges, o.audit_log, FALSE)
             ELSE RunInstructions(o.nodes, o.edges, o.audit_log, all_instructions, i + 1)

apply_validator_response(ns, es, instructions, log) ==
    RunInstructions(ns, es, log, AllInstructions(instructions), 1)

(***************************************************************************)
(* The validation loop of scripts/demo_pipeline.py (lines 135-201).        *)
(* The validator is an external collaborator: its response is any value of *)
(* the response sets below.  The text of the request (lines 147-160) is    *)
(* not modelled.  In this revision of the repository building that text    *)
(* raises AttributeError (DiagramIntent has no field domain, Edge no field *)
(* birectional read by Graph.__str__); the loop is modelled as it runs     *)
(* once a response is delivered.                                           *)
(***************************************************************************)

\* faulty variant: the ceiling is hit one round early
CeilingReachedEarly(it) == it >= MaxIterations

\* faulty variant: the ceiling is hit one round late
CeilingReachedLate(it) == it > MaxIterations + 1

\* "if iteration > max_iterations" (max_iterations is 10 in the script; the
\* model checks the loop for the ceiling MaxIterations)
CeilingReached(it) == it > MaxIterations


\* faulty variant: the warnings of the round replace the running list
ExtendWarningsReplaces(warnings, new) == new

\* all_warnings.extend(validator_response.warnings)
ExtendWarnings(warnings, new) == warnings \o new

\* faulty variant: a response with needs_correction = false is not applied
ApplyRoundSkipsWhenCorrect(ns, es, response) ==
    IF response.needs_correction
    THEN apply_validator_response(ns, es, response.instructions, <<>>)
    ELSE Outcome(ns, es, <<>>, TRUE)

\* should_continue = graph.apply_validator_response(validator_response, audit_log)
\* with the fresh audit_log = [] of the round
ApplyRound(ns, es, response) ==
    apply_validator_response(ns, es, response.instructions, <<>>)


\* faulty variant: the halt signal is ignored
RoundOutcomeIgnoresHalt(continue, needs_correction) ==
    IF ~needs_correction THEN "converged" ELSE "running"

\* faulty variant: the converged check comes before the halt check
RoundOutcomeConvergedFirst(continue, needs_correction) ==
    IF ~needs_correction THEN "converged"
    ELSE IF ~continue THEN "failed"
    ELSE "running"

\* the two checks that end a round: sys.exit(1) on halt, break on
\* needs_correction = false, otherwise the next round
RoundOutcome(continue, needs_correction) ==
    IF ~continue THEN "failed"
    ELSE IF ~needs_correction THEN "converged"
    ELSE "running"

Terminal == {"converged", "failed", "gave_up"}

(***************************************************************************)
(* LayoutPlan._get_entity_position (src/diagmind/utils/models.py).         *)
(* Coordinates and radii are integers and angles multiples of 90 degrees,  *)
(* for which cosine and sine are 1, 0 or -1; the model computes with these *)
(* exact values (math.cos(math.radians(90)) is 6.1e-17 in floating point). *)
(* A call that nests deeper than RecursionLimit frames ends as the         *)
(* interpreter ends it, with RecursionError (sys.getrecursionlimit() is    *)
(* 1000 by default; the model checks with the limit RecursionLimit).       *)
(***************************************************************************)
Orbit(center, radius, angle_deg) ==
    [center |-> center, radius |-> radius, angle_deg |-> angle_deg]

EntityPosition(type, x, y, orbit) == [type |-> type, x |-> x, y |-> y, orbit |-> orbit]

Entity(id, position) == [id |-> id, position |-> position]

\* math.radians(angle_deg), in quarter turns
Radians(angle_deg) == (angle_deg \div 90) % 4

\* math.sin of an angle in quarter turns
Sin(angle_rad) == IF angle_rad = 1 THEN 1 ELSE IF angle_rad = 3 THEN -1 ELSE 0

\* faulty variant: the sine is taken for the x offset
CosAsSin(angle_rad) == Sin(angle_rad)

\* math.cos of an angle in quarter turns
Cos(angle_rad) == IF angle_rad = 0 THEN 1 ELSE IF angle_rad = 2 THEN -1 ELSE 0

\* next((e for e in self.entities if e.id == center), None): the position of
\* the first entity with that id, 0 for None
FindEntity(es, center) ==
    IF \E i \in 1..Len(es) : es[i].id = center
    THEN CHOOSE i \in 1..Len(es) :
            es[i].id = center /\ \A j \in 1..(i - 1) : es[j].id # center
    ELSE 0

\* a returned tuple; depth is the deepest frame the call reached
Position(x, y, depth) == [status |-> "ok", x |-> x, y |-> y, depth |-> depth]

\* RecursionError raised in the frame past the limit; it passes through
\* every frame below, none of which catches it
RecursionError(depth) == [status |-> "RecursionError", x |-> 0, y |-> 0, depth |-> depth]

\* the call in the frame number depth
RECURSIVE get_entity_position(_, _, _)
get_entity_position(es, entity, depth) ==
    IF depth > RecursionLimit THEN RecursionError(depth)
    ELSE IF entity.position.type = "orbit" /\ entity.position.orbit # None
    THEN LET orbit == entity.position.orbit[1]
             k == FindEntity(es, orbit.center)
         IN  IF k # 0
             THEN LET center == get_entity_position(es, es[k], depth + 1)
                      angle_rad == Radians(orbit.angle_deg)
                  IN  IF center.status # "ok" THEN center
                      ELSE Position(center.x + orbit.radius * Cos(angle_rad),
                                    center.y + orbit.radius * Sin(angle_rad),
                                    center.depth)
             ELSE Position(entity.position.x, entity.position.y, depth)
    ELSE Position(entity.position.x, entity.position.y, depth)

(***************************************************************************)
(* Inputs.                                                                 *)
(***************************************************************************)
EdgeIds == {NoEdgeId, StrEdgeId} \cup {IntEdgeId(n) : n \in 0..(MaxEdges + 1)}

OptNodeIds == {None} \cup {Some(id) : id \in NodeIds}

\* the dicts handed to apply_instruction
Instructions ==
    {[Instruction(a) EXCEPT !.edge_id = e] :
        a \in {"reverse_edge", "remove_edge"}, e \in EdgeIds}
    \cup
    {[Instruction("change_relation") EXCEPT !.edge_id = e, !.new_relation = r] :
        e \in EdgeIds, r \in {None} \cup {Some(o) : o \in Operators}}
    \cup
    {[Instruction("merge_nodes") EXCEPT !.source_node_id = s, !.target_node_id = t] :
        s \in OptNodeIds, t \in OptNodeIds}
    \cup
    {[Instruction("rename_node") EXCEPT !.node_id = n, !.new_label = l] :
        n \in OptNodeIds, l \in {None} \cup {Some(x) : x \in Labels}}
    \cup
    {Instruction("flag_error"), Instruction("split_node")}

RemoveEdge(n) == [Instruction("remove_edge") EXCEPT !.edge_id = IntEdgeId(n)]

ReverseEdge(n) == [Instruction("reverse_edge") EXCEPT !.edge_id = IntEdgeId(n)]

ChangeRelation(n, o) ==
    [Instruction("change_relation") EXCEPT !.edge_id = IntEdgeId(n), !.new_relation = Some(o)]

RenameNode(id, l) ==
    [Instruction("rename_node") EXCEPT !.node_id = Some(id), !.new_label = Some(l)]

MergeNodes(s, t) ==
    [Instruction("merge_nodes") EXCEPT !.source_node_id = Some(s), !.target_node_id = Some(t)]

FlagError == Instruction("flag_error")

\* the ValidatorInstruction values of a batch (edge_id: Optional[int])
BatchInstructions ==
    {RemoveEdge(n) : n \in 1..MaxEdges}
    \cup {Instruction("remove_edge")}
    \cup {ReverseEdge(n) : n \in 1..MaxEdges}
    \cup {ChangeRelation(1, "flows_to"), ChangeRelation(MaxEdges, "causes")}
    \cup {RenameNode("a", "L2"), MergeNodes("a", "b"), FlagError, Instruction("split_node")}
    \cup {[Instruction("change_relation") EXCEPT !.edge_id = IntEdgeId(1)],
          [Instruction("rename_node") EXCEPT !.node_id = Some("a")],
          MergeNodes("b", "b")}

Batches == UNION { [1..n -> BatchInstructions] : n \in 0..MaxBatch }

AllNodes == [id \in NodeIds |-> Node(id, "L1")]

PoolSeq ==
    << Edge("a", "b", "structural", "causes"),
       Edge("b", "c", "causal", "flows_to"),
       Edge("c", "a", "process", "causes") >>

\* the edge lists the loop starts from
LoopEdges == [i \in 1..MaxEdges |-> PoolSeq[((i - 1) % 3) + 1]]

LoopEdgeLists == {<<>>, <<PoolSeq[1]>>, LoopEdges}

Warning(node_id, edge_id, message) ==
    [node_id |-> node_id, edge_id |-> edge_id, message |-> message]

WarningLists ==
    { <<>>,
      <<Warning(Some("a"), NoEdgeId, "m1")>>,
      <<Warning(None, IntEdgeId(1), "m2"), Warning(None, NoEdgeId, "m3")>> }

HarmlessBatch == <<RemoveEdge(1)>>

HaltBatch == <<RenameNode("a", "L2"), FlagError>>

FailingBatch ==
    << Instruction("split_node"),
       ChangeRelation(MaxEdges + 1, "flows_to"),
       RenameNode("z", "L2"),
       ReverseEdge(1) >>

ValidatorBatches ==
    { <<>>, HarmlessBatch, HaltBatch, FailingBatch,
      <<FlagError, RemoveEdge(1)>>,
      <<ReverseEdge(1), RenameNode("a", "L2")>>,
      <<FlagError>> }

ValidatorResponse(needs_correction, instructions, warnings) ==
    [needs_correction |-> needs_correction, instructions |-> instructions,
     warnings |-> warnings]

ValidatorResponses ==
    { ValidatorResponse(n, b, w) : n \in BOOLEAN, b \in ValidatorBatches, w \in WarningLists }

NoCall == [op |-> "none", node_id |-> "", instructions |-> <<>>]

\* DiagramMetadata(topic, audience, purpose, detail_level), intent left None
DiagramMetadata(topic, audience, purpose, detail_level) ==
    [topic |-> topic, audience |-> audience, purpose |-> purpose,
     detail_level |-> detail_level, intent |-> None]

NoMetadata == DiagramMetadata("", "", "", "")

Snapshot(ns, es, log) == [nodes |-> ns, edges |-> es, audit_log |-> log]

(***************************************************************************)
(* Spec: one Graph operation on an arbitrary bounded graph.                *)
(***************************************************************************)
LoopIdle ==
    /\ iteration = 0
    /\ all_warnings = <<>>
    /\ validator_response = ValidatorResponse(FALSE, <<>>, <<>>)
    /\ should_continue = TRUE
    /\ calls = 0
    /\ stubborn = TRUE

\* no node written through add_node yet, a Diagram without constraints, no
\* LayoutPlan
RestIdle ==
    /\ written = <<>>
    /\ metadata = NoMetadata
    /\ constraints = <<>>
    /\ entities = <<>>

Init ==
    /\ nodes \in NodeMaps
    /\ edges \in EdgeLists
    /\ audit_log \in {<<>>, <<FailedEntry("split_node", "Unknown action")>>}
    /\ call = NoCall
    /\ ret = FALSE
    /\ before = Snapshot(nodes, edges, audit_log)
    /\ initial = Snapshot(nodes, edges, audit_log)
    /\ pc = "ready"
    /\ LoopIdle
    /\ RestIdle

CallRemoveNode ==
    /\ pc = "ready"
    /\ \E node_id \in NodeIds :
        LET o == remove_node(nodes, edges, node_id)
        IN  /\ nodes' = o.nodes
            /\ edges' = o.edges
            /\ ret' = o.result
            /\ call' = [op |-> "remove_node", node_id |-> node_id, instructions |-> <<>>]
    /\ before' = Snapshot(nodes, edges, audit_log)
    /\ pc' = "returned"
    /\ UNCHANGED <<audit_log, initial, loopVars, restVars>>

CallApplyInstruction ==
    /\ pc = "ready"
    /\ \E instruction \in Instructions :
        LET o == apply_instruction(nodes, edges, instruction, audit_log)
        IN  /\ nodes' = o.nodes
            /\ edges' = o.edges
            /\ audit_log' = o.audit_log
            /\ ret' = o.result
            /\ call' = [op |-> "apply_instruction", node_id |-> "",
                        instructions |-> <<instruction>>]
    /\ before' = Snapshot(nodes, edges, audit_log)
    /\ pc' = "returned"
    /\ UNCHANGED <<initial, loopVars, restVars>>

\* the caller hands the instruction just processed to apply_instruction once
\* more, with the same audit log
CallApplyInstructionAgain ==
    /\ pc = "returned"
    /\ call.op = "apply_instruction"
    /\ LET o == apply_instruction(nodes, edges, call.instructions[1], audit_log)
       IN  /\ nodes' = o.nodes
           /\ edges' = o.edges
           /\ audit_log' = o.audit_log
           /\ ret' = o.result
    /\ before' = Snapshot(nodes, edges, audit_log)
    /\ pc' = "returned_again"
    /\ UNCHANGED <<call, initial, loopVars, restVars>>

CallRemoveEdge ==
    /\ pc = "ready"
    /\ \E source \in NodeIds, target \in NodeIds,
          operator \in {None} \cup {Some(o) : o \in Operators} :
        LET o == remove_edge(edges, source, target, operator)
        IN  /\ edges' = o.edges
            /\ ret' = o.result
            /\ call' = [op |-> "remove_edge", source |-> source, target |-> target,
                        operator |-> operator]
    /\ before' = Snapshot(nodes, edges, audit_log)
    /\ pc' = "returned"
    /\ UNCHANGED <<nodes, audit_log, initial, loopVars, restVars>>

\* the lists handed to add_edges: edges of the pool, also twice the same
NewEdgeLists == {list \in EdgeLists : Len(list) <= 2}

CallAddEdges ==
    /\ pc = "ready"
    /\ \E list \in NewEdgeLists :
        /\ edges' = add_edges(edges, list)
        /\ call' = [op |-> "add_edges", edges |-> list]
    /\ before' = Snapshot(nodes, edges, audit_log)
    /\ pc' = "returned"
    /\ UNCHANGED <<nodes, audit_log, ret, initial, loopVars, restVars>>

CallAddEdge ==
    /\ pc = "ready"
    /\ \E edge \in EdgePool :
        /\ edges' = add_edge(edges, edge)
        /\ call' = [op |-> "add_edge", edges |-> <<edge>>]
    /\ before' = Snapshot(nodes, edges, audit_log)
    /\ pc' = "returned"
    /\ UNCHANGED <<nodes, audit_log, ret, initial, loopVars, restVars>>

CallStr ==
    /\ pc = "ready"
    /\ ret' = graph_str(nodes, edges)
    /\ call' = [op |-> "__str__"]
    /\ before' = Snapshot(nodes, edges, audit_log)
    /\ pc' = "returned"
    /\ UNCHANGED <<nodes, edges, audit_log, initial, loopVars, restVars>>

CallGetAllEdges ==
    /\ pc = "ready"
    /\ ret' = get_all_edges(nodes, edges)
    /\ call' = [op |-> "get_all_edges"]
    /\ before' = Snapshot(nodes, edges, audit_log)
    /\ pc' = "returned"
    /\ UNCHANGED <<nodes, edges, audit_log, initial, loopVars, restVars>>

Next ==
    \/ CallStr
    \/ CallGetAllEdges
    \/ CallRemoveNode
    \/ CallApplyInstruction
    \/ CallApplyInstructionAgain
    \/ CallRemoveEdge
    \/ CallAddEdges
    \/ CallAddEdge

Spec == Init /\ [][Next]_vars

(***************************************************************************)
(* AddSpec: a Graph() filled through add_node and add_nodes.               *)
(***************************************************************************)
\* the nodes a producer hands to add_node / add_nodes: ids repeat with
\* other types and labels
AddableNodes ==
    { NodeValue("a", "entity", "L1"), NodeValue("a", "process", "L2"),
      NodeValue("a", "entity", "L2"), NodeValue("b", "process", "L1"),
      NodeValue("b", "state", "L1"), NodeValue("c", "state", "L2") }

NodeLists == UNION { [1..n -> AddableNodes] : n \in 0..MaxWritten }

\* Graph(): nodes = {}, edges = []
EmptyGraph == [nodes |-> [id \in {} |-> Node(id, "L1")], edges |-> <<>>]

AddInit ==
    /\ nodes = EmptyGraph.nodes
    /\ edges = EmptyGraph.edges
    /\ audit_log = <<>>
    /\ call = NoCall
    /\ ret = FALSE
    /\ before = Snapshot(nodes, edges, audit_log)
    /\ initial = Snapshot(nodes, edges, audit_log)
    /\ pc = "building"
    /\ LoopIdle
    /\ RestIdle

CallAddNode ==
    /\ pc = "building"
    /\ Len(written) < MaxWritten
    /\ \E node \in AddableNodes :
        /\ nodes' = add_node(nodes, node)
        /\ written' = Append(written, node)
    /\ call' = [op |-> "add_node", node_id |-> "", instructions |-> <<>>]
    /\ before' = Snapshot(nodes, edges, audit_log)
    /\ UNCHANGED <<edges, audit_log, ret, pc, initial, loopVars,
                   metadata, constraints, entities>>

CallAddNodes ==
    /\ pc = "building"
    /\ \E list \in NodeLists :
        /\ Len(written) + Len(list) <= MaxWritten
        /\ nodes' = add_nodes(nodes, list)
        /\ written' = written \o list
    /\ call' = [op |-> "add_nodes", node_id |-> "", instructions |-> <<>>]
    /\ before' = Snapshot(nodes, edges, audit_log)
    /\ UNCHANGED <<edges, audit_log, ret, pc, initial, loopVars,
                   metadata, constraints, entities>>

AddNext == CallAddNode \/ CallAddNodes

AddSpec == AddInit /\ [][AddNext]_vars

(***************************************************************************)
(* Diagram.to_dict (src/diagmind/graph/diagram.py), Graph.to_dict.         *)
(* model_dump() of a model whose fields are plain values is the dict of    *)
(* its fields: the record that stands for the model.  A Python dict keeps  *)
(* its keys in the order of their first insertion; for the node map that   *)
(* order is carried by the list of the nodes written.                      *)
(***************************************************************************)
Constraint(id, family, description, hard) ==
    [id |-> id, family |-> family, description |-> description, scope |-> None,
     hard |-> hard, parameters |-> None]

\* the keys of the dict filled by add_nodes(list), in insertion order
RECURSIVE KeysFrom(_, _)
KeysFrom(list, i) ==
    IF i > Len(list) THEN <<>>
    ELSE (IF \E j \in 1..(i - 1) : list[j].id = list[i].id THEN <<>> ELSE <<list[i].id>>)
         \o KeysFrom(list, i + 1)

Keys(list) == KeysFrom(list, 1)

\* d.values() of a dict with the keys in that order
Values(d, keys) == [i \in 1..Len(keys) |-> d[keys[i]]]

\* the list held by a Python list, last element first
Reversed(list) == [i \in 1..Len(list) |-> list[Len(list) + 1 - i]]

\* faulty variant: the edges are listed last one first
to_dict_edges_reversed(md, ns, keys, es, cs) ==
    [metadata |-> md, nodes |-> Values(ns, keys), edges |-> Reversed(es),
     constraints |-> cs]

\* Diagram.to_dict
to_dict(md, ns, keys, es, cs) ==
    [metadata |-> md,
     nodes |-> [i \in 1..Len(Values(ns, keys)) |-> Values(ns, keys)[i]],
     edges |-> [i \in 1..Len(es) |-> es[i]],
     constraints |-> [i \in 1..Len(cs) |-> cs[i]]]

\* Graph.to_dict
graph_to_dict(ns, keys, es) ==
    [nodes |-> [i \in 1..Len(Values(ns, keys)) |-> Values(ns, keys)[i]],
     edges |-> [i \in 1..Len(es) |-> es[i]]]

(***************************************************************************)
(* DiagramSpec: to_dict on a Diagram a producer has filled (add_nodes on a *)
(* new Graph, edges and constraints appended).                             *)
(***************************************************************************)
\* the lists of nodes the graph of the diagram was filled with
DiagramNodeLists ==
    { <<>>,
      <<NodeValue("a", "entity", "L1")>>,
      <<NodeValue("b", "process", "L1"), NodeValue("a", "entity", "L1")>>,
      <<NodeValue("c", "state", "L2"), NodeValue("a", "entity", "L1"),
        NodeValue("c", "state", "L1")>>,
      <<NodeValue("c", "state", "L2"), NodeValue("b", "state", "L1"),
        NodeValue("a", "process", "L2")>> }

ConstraintPool ==
    { Constraint("k1", "spatial", "d1", TRUE), Constraint("k2", "style", "d2", FALSE) }

ConstraintLists == UNION { [1..n -> ConstraintPool] : n \in 0..MaxConstraints }

NoDict == [nodes |-> <<>>, edges |-> <<>>]

DiagramInit ==
    /\ written \in DiagramNodeLists
    /\ nodes = add_nodes(EmptyGraph.nodes, written)
    /\ edges \in EdgeLists
    /\ metadata = DiagramMetadata("topic", "audience", "purpose", "low")
    /\ constraints \in ConstraintLists
    /\ entities = <<>>
    /\ audit_log = <<>>
    /\ call = NoCall
    /\ ret = NoDict
    /\ before = Snapshot(nodes, edges, audit_log)
    /\ initial = Snapshot(nodes, edges, audit_log)
    /\ pc = "ready"
    /\ LoopIdle

CallToDict ==
    /\ pc = "ready"
    /\ ret' = to_dict(metadata, nodes, Keys(written), edges, constraints)
    /\ call' = [op |-> "Diagram.to_dict", node_id |-> "", instructions |-> <<>>]
    /\ pc' = "returned"
    /\ UNCHANGED <<nodes, edges, audit_log, before, initial, loopVars, restVars>>

CallGraphToDict ==
    /\ pc = "ready"
    /\ ret' = graph_to_dict(nodes, Keys(written), edges)
    /\ call' = [op |-> "Graph.to_dict", node_id |-> "", instructions |-> <<>>]
    /\ pc' = "returned"
    /\ UNCHANGED <<nodes, edges, audit_log, before, initial, loopVars, restVars>>

DiagramNext == CallToDict \/ CallGraphToDict

DiagramSpec == DiagramInit /\ [][DiagramNext]_vars

(***************************************************************************)
(* OrbitSpec: one _get_entity_position call on a bounded LayoutPlan, for   *)
(* an entity of the plan (as visualize calls it, models.py:232-233).       *)
(***************************************************************************)
EntityNames == <<"P", "Q", "R", "S", "T", "U">>

Angles == {0, 90, 180}

\* the positions an entity of a plan may have: absolute at (10, 10); or in
\* orbit (radius 5) around any entity of the plan, itself included, or
\* around the id "Z" no entity has; or of type orbit without orbit
\* parameters.  Orbiting entities store (1, 2) as their x and y.
EntityPositions ==
    { EntityPosition("absolute", 10, 10, None), EntityPosition("orbit", 1, 2, None) }
    \cup
    { EntityPosition("orbit", 1, 2, Some(Orbit(c, 5, a))) :
        c \in {EntityNames[j] : j \in 1..MaxEntities} \cup {"Z"}, a \in Angles }

\* the plan whose i-th entity has the i-th name and the position positions[i]
EntityList(positions) ==
    [i \in 1..Len(positions) |-> Entity(EntityNames[i], positions[i])]

NoPosition == [status |-> "none", x |-> 0, y |-> 0, depth |-> 0]

OrbitInit ==
    /\ nodes = EmptyGraph.nodes
    /\ edges = EmptyGraph.edges
    /\ audit_log = <<>>
    /\ call = NoCall
    /\ ret = NoPosition
    /\ before = Snapshot(nodes, edges, audit_log)
    /\ initial = Snapshot(nodes, edges, audit_log)
    /\ pc = "ready"
    /\ LoopIdle
    /\ written = <<>>
    /\ metadata = NoMetadata
    /\ constraints = <<>>
    /\ \E n \in 1..MaxEntities :
        \E positions \in [1..n -> EntityPositions] : entities = EntityList(positions)

CallGetEntityPosition ==
    /\ pc = "ready"
    /\ \E i \in 1..Len(entities) :
        /\ ret' = get_entity_position(entities, entities[i], 1)
        /\ call' = [op |-> "_get_entity_position", node_id |-> entities[i].id,
                    instructions |-> <<>>]
    /\ pc' = "returned"
    /\ UNCHANGED <<nodes, edges, audit_log, before, initial, loopVars, restVars>>

OrbitNext == CallGetEntityPosition

OrbitSpec == OrbitInit /\ [][OrbitNext]_vars

(***************************************************************************)
(* BatchSpec: one apply_validator_response on a bounded graph.             *)
(***************************************************************************)
BatchInit ==
    /\ nodes = AllNodes
    /\ edges \in EdgeLists
    /\ audit_log = <<>>
    /\ call = NoCall
    /\ ret = FALSE
    /\ before = Snapshot(nodes, edges, audit_log)
    /\ initial = Snapshot(nodes, edges, audit_log)
    /\ pc = "ready"
    /\ LoopIdle
    /\ RestIdle

CallApplyValidatorResponse ==
    /\ pc = "ready"
    /\ \E instructions \in Batches :
        LET o == apply_validator_response(nodes, edges, instructions, audit_log)
        IN  /\ nodes' = o.nodes
            /\ edges' = o.edges
            /\ audit_log' = o.audit_log
            /\ ret' = o.result
            /\ call' = [op |-> "apply_validator_response", node_id |-> "",
                        instructions |-> instructions]
    /\ before' = Snapshot(nodes, edges, audit_log)
    /\ pc' = "returned"
    /\ UNCHANGED <<initial, loopVars, restVars>>

BatchNext == CallApplyValidatorResponse

BatchSpec == BatchInit /\ [][BatchNext]_vars

(***************************************************************************)
(* LoopSpec: the validation loop, driven by an arbitrary validator.        *)
(***************************************************************************)
LoopInit ==
    /\ nodes = AllNodes
    /\ edges \in LoopEdgeLists
    /\ audit_log = <<>>
    /\ call = NoCall
    /\ ret = FALSE
    /\ before = Snapshot(nodes, edges, audit_log)
    /\ initial = Snapshot(nodes, edges, audit_log)
    /\ pc = "running"
    /\ LoopIdle
    /\ RestIdle

\* iteration += 1; if iteration > max_iterations: break
LoopGiveUp ==
    /\ pc = "running"
    /\ CeilingReached(iteration + 1)
    /\ iteration' = iteration + 1
    /\ pc' = "gave_up"
    /\ UNCHANGED <<nodes, edges, audit_log, call, ret, before, initial, all_warnings,
                   validator_response, should_continue, calls, stubborn, restVars>>

\* one round: the validator call, the warnings, the batch, the two checks
LoopRound ==
    /\ pc = "running"
    /\ ~CeilingReached(iteration + 1)
    /\ iteration' = iteration + 1
    /\ \E response \in ValidatorResponses :
        LET o == ApplyRound(nodes, edges, response)
        IN  /\ validator_response' = response
            /\ calls' = calls + 1
            /\ all_warnings' = ExtendWarnings(all_warnings, response.warnings)
            /\ nodes' = o.nodes
            /\ edges' = o.edges
            /\ audit_log' = o.audit_log
            /\ should_continue' = o.result
            /\ ret' = o.result
            /\ call' = [op |-> "apply_validator_response", node_id |-> "",
                        instructions |-> response.instructions]
            /\ pc' = RoundOutcome(o.result, response.needs_correction)
            /\ stubborn' = (stubborn /\ response.needs_correction
                                     /\ response.instructions = HarmlessBatch)
    /\ before' = Snapshot(nodes, edges, <<>>)
    /\ UNCHANGED <<initial, restVars>>

LoopNext == LoopGiveUp \/ LoopRound

LoopSpec == LoopInit /\ [][LoopNext]_vars

\* LoopSpec with the scheduling of the script: the loop body runs on, and
\* the blocking validator call returns.
LoopFairSpec == LoopSpec /\ WF_vars(LoopNext)

(***************************************************************************)
(* EngineSpec: any sequence of remove_node, apply_instruction and          *)
(* apply_validator_response calls on a graph whose edges all join keys of  *)
(* the node map.  Each call gets a fresh audit log, as in the loop of      *)
(* demo_pipeline.py; before is the graph before the latest call.           *)
(***************************************************************************)
EndpointsIn(ns, es) ==
    \A i \in 1..Len(es) : es[i].source \in DOMAIN ns /\ es[i].target \in DOMAIN ns

\* the batches of the engine: those of the loop, and merges among them
EngineBatches ==
    ValidatorBatches
    \cup { <<MergeNodes("a", "b"), RemoveEdge(1)>>,
           <<ReverseEdge(1), MergeNodes("c", "a")>>,
           <<RemoveEdge(MaxEdges), ChangeRelation(1, "flows_to"), RemoveEdge(1)>> }

\* the instructions handed to apply_instruction one at a time
EngineInstructions ==
    BatchInstructions
    \cup {MergeNodes("c", "a"), [Instruction("remove_edge") EXCEPT !.edge_id = StrEdgeId]}

\* the edge lists the engine starts from, all of them joining keys of
\* AllNodes; smaller node maps are reached through remove_node
EngineEdgeLists ==
    LoopEdgeLists \cup {<<PoolSeq[1], PoolSeq[1]>>, <<PoolSeq[2], PoolSeq[1]>>}

EngineInit ==
    /\ nodes = AllNodes
    /\ edges \in EngineEdgeLists
    /\ EndpointsIn(nodes, edges)
    /\ audit_log = <<>>
    /\ call = NoCall
    /\ ret = FALSE
    /\ before = Snapshot(nodes, edges, audit_log)
    /\ initial = Snapshot(nodes, edges, audit_log)
    /\ pc = "ready"
    /\ LoopIdle
    /\ RestIdle

EngineRemoveNode ==
    /\ pc \in {"ready", "returned"}
    /\ \E node_id \in NodeIds :
        LET o == remove_node(nodes, edges, node_id)
        IN  /\ nodes' = o.nodes
            /\ edges' = o.edges
            /\ ret' = o.result
            /\ call' = [op |-> "remove_node", node_id |-> node_id, instructions |-> <<>>]
    /\ audit_log' = <<>>
    /\ before' = Snapshot(nodes, edges, <<>>)
    /\ pc' = "returned"
    /\ UNCHANGED <<initial, loopVars, restVars>>

EngineApplyInstruction ==
    /\ pc \in {"ready", "returned"}
    /\ \E instruction \in EngineInstructions :
        LET o == apply_instruction(nodes, edges, instruction, <<>>)
        IN  /\ nodes' = o.nodes
            /\ edges' = o.edges
            /\ audit_log' = o.audit_log
            /\ ret' = o.result
            /\ call' = [op |-> "apply_instruction", node_id |-> "",
                        instructions |-> <<instruction>>]
    /\ before' = Snapshot(nodes, edges, <<>>)
    /\ pc' = "returned"
    /\ UNCHANGED <<initial, loopVars, restVars>>

EngineApplyValidatorResponse ==
    /\ pc \in {"ready", "returned"}
    /\ \E instructions \in EngineBatches :
        LET o == apply_validator_response(nodes, edges, instructions, <<>>)
        IN  /\ nodes' = o.nodes
            /\ edges' = o.edges
            /\ audit_log' = o.audit_log
            /\ ret' = o.result
            /\ call' = [op |-> "apply_validator_response", node_id |-> "",
                        instructions |-> instructions]
    /\ before' = Snapshot(nodes, edges, <<>>)
    /\ pc' = "returned"
    /\ UNCHANGED <<initial, loopVars, restVars>>

EngineNext ==
    \/ EngineRemoveNode
    \/ EngineApplyInstruction
    \/ EngineApplyValidatorResponse

EngineSpec == EngineInit /\ [][EngineNext]_vars

(***************************************************************************)
(* Vocabulary of the properties.                                           *)
(***************************************************************************)
Returned(op) == pc = "returned" /\ call.op = op

LastEntry == audit_log[Len(audit_log)]

\* seq without the elements at the positions in S, order kept
RECURSIVE DeletePositions(_, _, _)
DeletePositions(seq, S, i) ==
    IF i > Len(seq) THEN <<>>
    ELSE (IF i \in S THEN <<>> ELSE <<seq[i]>>) \o DeletePositions(seq, S, i + 1)

PositionsOf(batch) ==
    {batch[i].edge_id.val : i \in {j \in 1..Len(batch) : IsRemoveEdge(batch[j])}}

ValidPosition(instruction, es) ==
    instruction.edge_id.kind = "int" /\ instruction.edge_id.val \in 1..Len(es)

\* only remove_edge instructions, naming distinct positions valid in es
IsRemovalBatch(batch, es) ==
    /\ \A i \in 1..Len(batch) : IsRemoveEdge(batch[i]) /\ ValidPosition(batch[i], es)
    /\ \A i, j \in 1..Len(batch) : i # j => batch[i].edge_id # batch[j].edge_id

\* every instruction applied in turn, none of them ending the run
RECURSIVE ApplyAll(_, _, _, _, _)
ApplyAll(ns, es, log, list, i) ==
    IF i > Len(list) THEN Outcome(ns, es, log, TRUE)
    ELSE LET o == apply_instruction(ns, es, list[i], log)
         IN  ApplyAll(o.nodes, o.edges, o.audit_log, list, i + 1)

HasFlagError(batch) == \E i \in 1..Len(batch) : batch[i].action = "flag_error"

FirstFlagError(batch) ==
    CHOOSE i \in 1..Len(batch) :
        /\ batch[i].action = "flag_error"
        /\ \A j \in 1..(i - 1) : batch[j].action # "flag_error"

(***************************************************************************)
(* C1  Index-stable batch removal: a batch of remove_edge instructions on  *)
(* distinct positions, all valid before the batch, leaves exactly the      *)
(* pre-batch list without the edges at those positions, in the original    *)
(* order, whatever the order of the instructions.                          *)
(***************************************************************************)
C1_IndexStableBatchRemoval ==
    (Returned("apply_validator_response")
        /\ IsRemovalBatch(call.instructions, before.edges))
    => /\ edges = DeletePositions(before.edges, PositionsOf(call.instructions), 1)
       /\ nodes = before.nodes
       /\ ret = TRUE

C1_Witness ==
    /\ Returned("apply_validator_response")
    /\ call.instructions = <<RemoveEdge(1), RemoveEdge(3)>>
    /\ Len(before.edges) = 3
    /\ edges = <<before.edges[2]>>

(***************************************************************************)
(* C2  Every edge-addressed instruction of a batch acts on the edge that   *)
(* held the named position before the batch: for a batch of remove_edge,   *)
(* reverse_edge and change_relation instructions with valid positions,     *)
(* where no modified position is removed, the result is the pre-batch list *)
(* with the modifications made at the named positions and the named        *)
(* positions then deleted.                                                 *)
(***************************************************************************)
IsEdgeBatch(batch, es) ==
    /\ \A i \in 1..Len(batch) :
        /\ batch[i].action \in {"remove_edge", "reverse_edge", "change_relation"}
        /\ ValidPosition(batch[i], es)
    /\ \A i, j \in 1..Len(batch) :
        (i # j /\ IsRemoveEdge(batch[i])) => batch[i].edge_id # batch[j].edge_id

C2_SnapshotAddressing ==
    (Returned("apply_validator_response") /\ IsEdgeBatch(call.instructions, before.edges))
    => edges = DeletePositions(
                  ApplyAll(before.nodes, before.edges, <<>>,
                           SelectSeq(call.instructions, IsOther), 1).edges,
                  PositionsOf(call.instructions), 1)

(***************************************************************************)
(* C3  (as claimed) Nothing that follows a flag_error in the batch is      *)
(* processed: the outcome is that of the batch cut after its first         *)
(* flag_error, and the call returns False.                                 *)
(***************************************************************************)
C3_NothingAfterFlagError ==
    (Returned("apply_validator_response") /\ HasFlagError(call.instructions))
    => LET cut == SubSeq(call.instructions, 1, FirstFlagError(call.instructions))
           o == apply_validator_response(before.nodes, before.edges, cut, before.audit_log)
       IN  /\ nodes = o.nodes
           /\ edges = o.edges
           /\ audit_log = o.audit_log
           /\ ret = FALSE

(***************************************************************************)
(* C3  (amended) With a flag_error in the batch the call returns False;    *)
(* every remove_edge of the batch, wherever it stands, is processed first  *)
(* (by descending position), then the other instructions up to and         *)
(* including the first flag_error; no other instruction behind that        *)
(* flag_error changes the graph or adds an audit entry.                    *)
(***************************************************************************)
ProcessedBeforeHalt(batch) ==
    LET k == FirstFlagError(batch)
        removals == SelectSeq(batch, IsRemoveEdge)
        others == SelectSeq(SubSeq(batch, 1, k), IsOther)
    IN  [removals |-> removals, others |-> others]

C3_HaltStopsLaterOthers ==
    (Returned("apply_validator_response") /\ HasFlagError(call.instructions))
    => LET p == ProcessedBeforeHalt(call.instructions)
           r == ApplyAll(before.nodes, before.edges, before.audit_log,
                         SortRemovals(p.removals), 1)
           o == ApplyAll(r.nodes, r.edges, r.audit_log, p.others, 1)
       IN  /\ ret = FALSE
           /\ nodes = o.nodes
           /\ edges = o.edges
           /\ audit_log = o.audit_log
           /\ Len(audit_log) = Len(before.audit_log) + Len(p.removals) + Len(p.others)
           /\ LastEntry.action = "flag_error"
           /\ LastEntry.status = "error"

C3_Witness ==
    /\ Returned("apply_validator_response")
    /\ call.instructions = <<FlagError, RemoveEdge(1)>>
    /\ Len(before.edges) = 2
    /\ edges = <<before.edges[2]>>
    /\ Len(audit_log) = 2
    /\ ret = FALSE

(***************************************************************************)
(* C4  Halt propagation: the batch [rename_node(a), flag_error] renames    *)
(* the existing node a, then halts; the loop ends in failed in that round  *)
(* and no further batch is requested or applied.                           *)
(***************************************************************************)
C4_HaltPropagation ==
    /\ (calls > 0 /\ validator_response.instructions = HaltBatch /\ "a" \in DOMAIN before.nodes)
        => /\ nodes["a"].label = "L2"
           /\ nodes = [before.nodes EXCEPT !["a"].label = "L2"]
           /\ edges = before.edges
           /\ Len(audit_log) = 2
           /\ audit_log[1].action = "rename_node" /\ audit_log[1].status = "applied"
           /\ audit_log[2].action = "flag_error" /\ audit_log[2].status = "error"
           /\ should_continue = FALSE
           /\ pc = "failed"
    /\ (calls > 0 /\ should_continue = FALSE)
        => /\ ~ENABLED LoopNext
           /\ calls = iteration

C4_Witness ==
    /\ pc = "failed"
    /\ validator_response.instructions = HaltBatch
    /\ validator_response.needs_correction
    /\ before.nodes["a"].label = "L1"
    /\ nodes["a"].label = "L2"
    /\ iteration < MaxIterations

(***************************************************************************)
(* C5  apply_instruction is atomic and audited: each call appends exactly  *)
(* one entry to the audit log and returns; the graph is either left as it  *)
(* was (entry not "applied") or carries the whole effect of the            *)
(* instruction (entry "applied").  A raised TypeError ends in an "error"   *)
(* entry, not in the caller.                                               *)
(***************************************************************************)
Swapped(edge) == [edge EXCEPT !.source = edge.target, !.target = edge.source]

Endpoint(x, s, t) == IF x = s THEN t ELSE x

\* the effect column of the instruction table, on the graph (ns, es)
WholeEffect(ns, es, instruction) ==
    LET a == instruction.action
        p == instruction.edge_id.val
    IN  IF a = "reverse_edge"
        THEN [nodes |-> ns, edges |-> [es EXCEPT ![p] = Swapped(es[p])]]
        ELSE IF a = "remove_edge"
        THEN [nodes |-> ns, edges |-> DeletePositions(es, {p}, 1)]
        ELSE IF a = "change_relation"
        THEN [nodes |-> ns,
              edges |-> [es EXCEPT ![p] = [es[p] EXCEPT !.operator = instruction.new_relation[1]]]]
        ELSE IF a = "merge_nodes"
        THEN LET s == instruction.source_node_id[1]
                 t == instruction.target_node_id[1]
             IN  [nodes |-> [id \in (DOMAIN ns) \ {s} |-> ns[id]],
                  edges |-> [i \in 1..Len(es) |->
                                [es[i] EXCEPT !.source = Endpoint(es[i].source, s, t),
                                              !.target = Endpoint(es[i].target, s, t)]]]
        ELSE IF a = "rename_node"
        THEN [nodes |-> [id \in DOMAIN ns |->
                            IF id = instruction.node_id[1]
                            THEN [ns[id] EXCEPT !.label = instruction.new_label[1]]
                            ELSE ns[id]],
              edges |-> es]
        ELSE [nodes |-> ns, edges |-> es]

C5_AtomicAudited ==
    Returned("apply_instruction")
    => LET instruction == call.instructions[1]
           effect == WholeEffect(before.nodes, before.edges, instruction)
       IN  /\ Len(audit_log) = Len(before.audit_log) + 1
           /\ SubSeq(audit_log, 1, Len(before.audit_log)) = before.audit_log
           /\ LastEntry.action = instruction.action
           /\ LastEntry.status \in {"applied", "failed", "error"}
           /\ LastEntry.status # "applied"
                => (nodes = before.nodes /\ edges = before.edges /\ ret = FALSE)
           /\ LastEntry.status = "applied"
                => (nodes = effect.nodes /\ edges = effect.edges /\ ret = TRUE)

C5_Witness ==
    /\ Returned("apply_instruction")
    /\ call.instructions[1].action = "remove_edge"
    /\ call.instructions[1].edge_id = StrEdgeId
    /\ Len(before.edges) = 2
    /\ Len(before.audit_log) = 1
    /\ Len(audit_log) = 2
    /\ LastEntry.status = "error"
    /\ edges = before.edges

(***************************************************************************)
(* C6  Cascade: after remove_node(x) no edge of the graph has source x or  *)
(* target x, also when x was no key of the node map.                       *)
(***************************************************************************)
C6_Cascade ==
    Returned("remove_node")
    => \A i \in 1..Len(edges) : ~IsConnected(edges[i], call.node_id)

(***************************************************************************)
(* C7  Convergence bound: the loop gives up only after exactly             *)
(* MaxIterations rounds; a validator that answers every round with         *)
(* needs_correction and the harmless remove_edge(1) never ends the loop    *)
(* otherwise, and at gave_up the graph carries the edit of every round     *)
(* (one leading edge removed per round, while there are edges).            *)
(***************************************************************************)
Min(m, n) == IF m < n THEN m ELSE n

FrozenWhenTerminal ==
    pc \in Terminal
    => (pc' = pc /\ nodes' = nodes /\ edges' = edges
        /\ all_warnings' = all_warnings /\ calls' = calls)

C9_HaltMeansFailed ==
    /\ (calls > 0 /\ ~should_continue) => (pc = "failed" /\ calls = iteration)
    /\ pc = "failed" => (calls > 0 /\ ~should_continue)

C9_Witness ==
    /\ pc = "failed"
    /\ ~should_continue
    /\ ~validator_response.needs_correction
    /\ iteration < MaxIterations

(***************************************************************************)
(* C10  A round whose batch does not halt and whose response has           *)
(* needs_correction = false ends the loop in converged, after the          *)
(* instructions of the response went through the Batch Corrector (one      *)
(* audit entry each, the graph changed accordingly); failed instructions   *)
(* do not prevent it.                                                      *)
(***************************************************************************)
C10_ConvergedAfterBatch ==
    /\ (calls > 0 /\ should_continue /\ ~validator_response.needs_correction)
        => LET o == apply_validator_response(before.nodes, before.edges,
                                             validator_response.instructions, <<>>)
           IN  /\ pc = "converged"
               /\ Len(audit_log) = Len(validator_response.instructions)
               /\ audit_log = o.audit_log
               /\ nodes = o.nodes
               /\ edges = o.edges
    /\ pc = "converged" => (should_continue /\ ~validator_response.needs_correction)

C10_Witness ==
    /\ pc = "converged"
    /\ validator_response.instructions = FailingBatch
    /\ Len(audit_log) = Len(FailingBatch)
    /\ audit_log[1].status = "failed"
    /\ audit_log[2].status = "failed"
    /\ audit_log[3].status = "failed"
    /\ audit_log[4].status = "applied"
    /\ edges # before.edges

(***************************************************************************)
(* C11  merge_nodes with two distinct keys of the node map as source and   *)
(* target succeeds, redirects every edge endpoint equal to the source id   *)
(* to the target id (nothing else of an edge changes, the list keeps its   *)
(* length and order), deletes the source node and leaves every other node, *)
(* the target included, as it was; afterwards no edge names the source id  *)
(* and the source id is no key of the node map.                            *)
(***************************************************************************)
IsMerge(instruction) == instruction.action = "merge_nodes"

\* source and target are given, distinct, and keys of the node map ns
MergeableIn(instruction, ns) ==
    /\ instruction.source_node_id # None
    /\ instruction.target_node_id # None
    /\ instruction.source_node_id[1] \in DOMAIN ns
    /\ instruction.target_node_id[1] \in DOMAIN ns
    /\ instruction.source_node_id[1] # instruction.target_node_id[1]

C11_MergeRedirects ==
    (Returned("apply_instruction")
        /\ IsMerge(call.instructions[1])
        /\ MergeableIn(call.instructions[1], before.nodes))
    => LET s == call.instructions[1].source_node_id[1]
           t == call.instructions[1].target_node_id[1]
       IN  /\ ret = TRUE
           /\ LastEntry.status = "applied"
           /\ s \notin DOMAIN nodes
           /\ DOMAIN nodes = (DOMAIN before.nodes) \ {s}
           /\ \A id \in DOMAIN nodes : nodes[id] = before.nodes[id]
           /\ Len(edges) = Len(before.edges)
           /\ \A i \in 1..Len(edges) :
                /\ edges[i].source = Endpoint(before.edges[i].source, s, t)
                /\ edges[i].target = Endpoint(before.edges[i].target, s, t)
                /\ edges[i].family = before.edges[i].family
                /\ edges[i].operator = before.edges[i].operator
                /\ edges[i].source # s
                /\ edges[i].target # s

C11_Witness ==
    /\ Returned("apply_instruction")
    /\ call.instructions[1] = MergeNodes("a", "b")
    /\ DOMAIN before.nodes = NodeIds
    /\ Len(before.edges) = 3
    /\ before.edges[1].source = "a"
    /\ before.edges[2].source = "b"
    /\ before.edges[3].target = "a"
    /\ edges[1].source = "b" /\ edges[1].target = "b"
    /\ edges[2] = before.edges[2]
    /\ edges[3].source = "c" /\ edges[3].target = "b"
    /\ DOMAIN nodes = {"b", "c"}
    /\ nodes["b"] = before.nodes["b"]

(***************************************************************************)
(* C12  merge_nodes with a source or target that is missing (not given, or *)
(* no key of the node map) or with source equal to target leaves nodes and *)
(* edges as they were, appends one "failed" entry and returns False.  A    *)
(* merge that was applied and is handed to apply_instruction again fails   *)
(* ("Invalid node IDs": its source is no key any more) and changes         *)
(* nothing.                                                                *)
(***************************************************************************)
ReturnedAgain == pc = "returned_again" /\ call.op = "apply_instruction"

Rejected ==
    /\ nodes = before.nodes
    /\ edges = before.edges
    /\ ret = FALSE
    /\ Len(audit_log) = Len(before.audit_log) + 1
    /\ SubSeq(audit_log, 1, Len(before.audit_log)) = before.audit_log
    /\ LastEntry.action = "merge_nodes"
    /\ LastEntry.status = "failed"

C12_MergeRejected ==
    /\ (Returned("apply_instruction")
            /\ IsMerge(call.instructions[1])
            /\ ~MergeableIn(call.instructions[1], before.nodes))
        => Rejected
    /\ (ReturnedAgain
            /\ IsMerge(call.instructions[1])
            /\ before.audit_log[Len(before.audit_log)].status = "applied")
        => (Rejected /\ LastEntry.reason = "Invalid node IDs")

C12_Witness ==
    /\ ReturnedAgain
    /\ call.instructions[1] = MergeNodes("c", "a")
    /\ initial.nodes = AllNodes
    /\ Len(initial.edges) = 2
    /\ edges # initial.edges
    /\ edges = before.edges
    /\ DOMAIN nodes = {"a", "b"}
    /\ Len(audit_log) = 2
    /\ audit_log[1].status = "applied"
    /\ audit_log[2].status = "failed"

(***************************************************************************)
(* C13  Uniqueness: after any sequence of add_node / add_nodes calls on a  *)
(* new Graph (a list may repeat an id) the keys of the node map are        *)
(* exactly the ids written, and the entry of an id is the last node        *)
(* written with that id, the whole node and no mixture with an earlier     *)
(* one.                                                                    *)
(***************************************************************************)
WrittenIds == {written[i].id : i \in 1..Len(written)}

LastWritten(id) ==
    written[CHOOSE i \in 1..Len(written) :
                /\ written[i].id = id
                /\ \A j \in (i + 1)..Len(written) : written[j].id # id]

C13_Uniqueness ==
    /\ DOMAIN nodes = WrittenIds
    /\ Cardinality(DOMAIN nodes) = Cardinality(WrittenIds)
    /\ \A id \in DOMAIN nodes :
        /\ nodes[id] = LastWritten(id)
        /\ nodes[id].id = id

C13_Witness ==
    /\ call.op = "add_nodes"
    /\ before.nodes = EmptyGraph.nodes
    /\ written = << NodeValue("a", "entity", "L1"), NodeValue("b", "process", "L1"),
                    NodeValue("a", "process", "L2") >>
    /\ DOMAIN nodes = {"a", "b"}
    /\ nodes["a"] = NodeValue("a", "process", "L2")

(***************************************************************************)
(* C14  A failing instruction does not stop the batch.  The call returns   *)
(* False exactly when the batch holds a flag_error; every instruction of   *)
(* the application order up to the first flag_error (all of them without   *)
(* one) is attempted and gets one audit entry, whatever failed before it;  *)
(* an instruction whose entry is "failed" has no effect: the graph is the  *)
(* one the applied instructions alone produce.                             *)
(***************************************************************************)
\* the instructions processed, in application order
Processed(batch) ==
    LET all == AllInstructions(batch)
    IN  IF HasFlagError(batch) THEN SubSeq(all, 1, FirstFlagError(all)) ELSE all

\* the audit entries the call added
NewEntries == SubSeq(audit_log, Len(before.audit_log) + 1, Len(audit_log))

\* the elements of list whose audit entry is "applied"
AppliedOf(list, log) ==
    DeletePositions(list, {i \in 1..Len(list) : log[i].status # "applied"}, 1)

C14_FailuresDoNotStop ==
    Returned("apply_validator_response")
    => LET batch == call.instructions
           p == Processed(batch)
           o == ApplyAll(before.nodes, before.edges, <<>>, AppliedOf(p, NewEntries), 1)
       IN  /\ ret = ~HasFlagError(batch)
           /\ Len(NewEntries) = Len(p)
           /\ ~HasFlagError(batch) => Len(NewEntries) = Len(batch)
           /\ \A i \in 1..Len(p) :
                /\ NewEntries[i].action = p[i].action
                /\ NewEntries[i].status \in {"applied", "failed", "error"}
                /\ NewEntries[i].status = "error" <=> p[i].action = "flag_error"
           /\ nodes = o.nodes
           /\ edges = o.edges

C14_Witness ==
    /\ Returned("apply_validator_response")
    /\ call.instructions = <<MergeNodes("b", "b"), RenameNode("a", "L2")>>
    /\ ret = TRUE
    /\ Len(audit_log) = 2
    /\ audit_log[1].status = "failed"
    /\ audit_log[2].status = "applied"
    /\ nodes["a"].label = "L2"
    /\ "b" \in DOMAIN nodes

(***************************************************************************)
(* C15  Processing a flag_error leaves nodes and edges as they were,       *)
(* appends exactly one audit entry, with status "error", and returns       *)
(* False; the same holds when it is processed a second time.               *)
(***************************************************************************)
IsFlagError(instruction) == instruction.action = "flag_error"

C15_FlagErrorFrame ==
    ((Returned("apply_instruction") \/ ReturnedAgain) /\ IsFlagError(call.instructions[1]))
    => /\ nodes = before.nodes
       /\ edges = before.edges
       /\ audit_log = Append(before.audit_log, LastEntry)
       /\ LastEntry.action = "flag_error"
       /\ LastEntry.status = "error"
       /\ LastEntry.reason = call.instructions[1].reason
       /\ ret = FALSE

C15_Witness ==
    /\ Returned("apply_instruction")
    /\ IsFlagError(call.instructions[1])
    /\ Len(before.edges) = MaxEdges
    /\ DOMAIN before.nodes = {"a"}
    /\ Len(before.audit_log) = 1
    /\ Len(audit_log) = 2
    /\ audit_log[2].status = "error"
    /\ edges = before.edges
    /\ ret = FALSE

(***************************************************************************)
(* C16  Application order of a batch: first all its remove_edge            *)
(* instructions, by descending edge position (an absent position counts    *)
(* as 0), then all other instructions in the order of the batch.  The      *)
(* audit log receives one entry per processed instruction in that order,   *)
(* up to the first flag_error, and the graph is the one that order         *)
(* produces.                                                               *)
(***************************************************************************)
EdgePosition(instruction) ==
    IF instruction.edge_id.kind = "int" THEN instruction.edge_id.val ELSE 0

\* the arrangements of the removals by descending position
DescendingOrders(removals) ==
    { [i \in 1..Len(removals) |-> removals[f[i]]] : f \in
        { g \in Permutations(1..Len(removals)) :
            \A i, j \in 1..Len(removals) :
                i < j => EdgePosition(removals[g[i]]) >= EdgePosition(removals[g[j]]) } }

\* log up to its first flag_error entry (the whole log without one)
UpToHalt(log) ==
    IF \E i \in 1..Len(log) : log[i].action = "flag_error"
    THEN SubSeq(log, 1, CHOOSE i \in 1..Len(log) :
                            /\ log[i].action = "flag_error"
                            /\ \A j \in 1..(i - 1) : log[j].action # "flag_error")
    ELSE log

C16_ApplicationOrder ==
    Returned("apply_validator_response")
    => LET batch == call.instructions
           removals == SelectSeq(batch, IsRemoveEdge)
           others == SelectSeq(batch, IsOther)
       IN  \A sorted \in DescendingOrders(removals) :
              LET r == ApplyAll(before.nodes, before.edges, before.audit_log, sorted, 1)
                  o == ApplyAll(r.nodes, r.edges, r.audit_log, others, 1)
                  h == ApplyAll(r.nodes, r.edges, r.audit_log,
                                SubSeq(others, 1, Len(UpToHalt(o.audit_log)) - Len(r.audit_log)), 1)
              IN  /\ audit_log = UpToHalt(o.audit_log)
                  /\ Len(r.audit_log) = Len(before.audit_log) + Len(removals)
                  /\ \A i \in 1..Len(removals) : audit_log[i].action = "remove_edge"
                  /\ \A i \in (Len(removals) + 1)..Len(audit_log) :
                        audit_log[i].action = others[i - Len(removals)].action
                  /\ nodes = h.nodes
                  /\ edges = h.edges

C16_Witness ==
    /\ Returned("apply_validator_response")
    /\ call.instructions = <<ReverseEdge(1), RemoveEdge(1)>>
    /\ Len(before.edges) = 2
    /\ Len(audit_log) = 2
    /\ audit_log[1].action = "remove_edge" /\ audit_log[1].status = "applied"
    /\ audit_log[2].action = "reverse_edge" /\ audit_log[2].status = "applied"
    /\ edges = <<Swapped(before.edges[2])>>

(***************************************************************************)
(* C17  Orbit resolution.  An absolute entity resolves to its stored       *)
(* coordinates.  An entity in orbit around a center that resolves, through *)
(* a chain of centers ending in an absolute entity, resolves to the        *)
(* position of its center plus radius * (cos(angle), sin(angle)), the      *)
(* angle in degrees.  With P absolute at (10, 10), Q around P at radius 5  *)
(* and 0 degrees, R around Q at radius 5 and 90 degrees: Q is at (15, 10)  *)
(* and R at (15, 15).                                                      *)
(***************************************************************************)
\* cosine and sine of the angles of the model, in degrees
UnitX(angle_deg) == IF angle_deg = 0 THEN 1 ELSE IF angle_deg = 180 THEN -1 ELSE 0

UnitY(angle_deg) == IF angle_deg = 90 THEN 1 ELSE IF angle_deg = 270 THEN -1 ELSE 0

EntityOf(id) == entities[CHOOSE i \in 1..Len(entities) : entities[i].id = id]

IsAbsolute(e) == e.position.type = "absolute"

InOrbit(e) == e.position.type = "orbit" /\ e.position.orbit # None

HasCenter(e) == \E i \in 1..Len(entities) : entities[i].id = e.position.orbit[1].center

CenterOf(e) == EntityOf(e.position.orbit[1].center)

\* the chain of centers of e ends in an absolute entity within n steps
RECURSIVE Grounded(_, _)
Grounded(e, n) ==
    \/ IsAbsolute(e)
    \/ n > 0 /\ InOrbit(e) /\ HasCenter(e) /\ Grounded(CenterOf(e), n - 1)

\* the position the claim assigns to a grounded entity
RECURSIVE Expected(_)
Expected(e) ==
    IF IsAbsolute(e) THEN [x |-> e.position.x, y |-> e.position.y]
    ELSE LET c == Expected(CenterOf(e))
             o == e.position.orbit[1]
         IN  [x |-> c.x + o.radius * UnitX(o.angle_deg),
              y |-> c.y + o.radius * UnitY(o.angle_deg)]

PQR ==
    << Entity("P", EntityPosition("absolute", 10, 10, None)),
       Entity("Q", EntityPosition("orbit", 1, 2, Some(Orbit("P", 5, 0)))),
       Entity("R", EntityPosition("orbit", 1, 2, Some(Orbit("Q", 5, 90)))) >>

C17_OrbitResolution ==
    /\ (Returned("_get_entity_position") /\ Grounded(EntityOf(call.node_id), Len(entities)))
        => /\ ret.status = "ok"
           /\ ret.x = Expected(EntityOf(call.node_id)).x
           /\ ret.y = Expected(EntityOf(call.node_id)).y
    /\ (Returned("_get_entity_position") /\ entities = PQR)
        => /\ call.node_id = "P" => (ret.x = 10 /\ ret.y = 10)
           /\ call.node_id = "Q" => (ret.x = 15 /\ ret.y = 10)
           /\ call.node_id = "R" => (ret.x = 15 /\ ret.y = 15)

C17_Witness ==
    /\ Returned("_get_entity_position")
    /\ entities = PQR
    /\ call.node_id = "R"
    /\ ret = Position(15, 15, 3)

(***************************************************************************)
(* C18  Resolving an entity whose chain of centers is cyclic (it never     *)
(* leaves the entities in orbit: A around B and B around A, or A around    *)
(* A) ends with a failure found on the chain: it does not return a         *)
(* position, and it does not nest deeper than the plan has entities.       *)
(***************************************************************************)
\* e and the next n centers of its chain are all in orbit around an entity
RECURSIVE Orbiting(_, _)
Orbiting(e, n) ==
    /\ InOrbit(e)
    /\ HasCenter(e)
    /\ (n = 0 \/ Orbiting(CenterOf(e), n - 1))

\* more orbiting entities in a row than the plan holds: the chain repeats
Cyclic(e) == Orbiting(e, Len(entities))

C18_CyclicOrbitFails ==
    (Returned("_get_entity_position") /\ Cyclic(EntityOf(call.node_id)))
    => /\ ret.status # "ok"
       /\ ret.depth <= Len(entities) + 1

(***************************************************************************)
(* C19  Resolving an entity in orbit around a center id that no entity of  *)
(* the plan has does not return a position.                                *)
(***************************************************************************)
C19_MissingCenterFails ==
    (Returned("_get_entity_position")
        /\ InOrbit(EntityOf(call.node_id))
        /\ ~HasCenter(EntityOf(call.node_id)))
    => ret.status # "ok"

(***************************************************************************)
(* C20  The dictionary of a diagram has exactly the keys metadata, nodes,  *)
(* edges and constraints; nodes lists one dict per key of the node map     *)
(* (each node once), edges the edges in graph order, constraints the       *)
(* constraints in list order; a Diagram filled from the dictionary         *)
(* (add_nodes, add_edges, add_constraints on a new one) has the same node  *)
(* map, edge list and constraint list.  Graph.to_dict gives the same nodes *)
(* and edges lists under the keys nodes and edges.                         *)
(***************************************************************************)
\* the Diagram filled from a dictionary d
FromDict(d) ==
    [metadata |-> d.metadata,
     nodes |-> add_nodes(EmptyGraph.nodes, d.nodes),
     edges |-> EmptyGraph.edges \o d.edges,
     constraints |-> <<>> \o d.constraints]

C20_DictRoundTrip ==
    /\ Returned("Diagram.to_dict")
        => /\ DOMAIN ret = {"metadata", "nodes", "edges", "constraints"}
           /\ Len(ret.nodes) = Cardinality(DOMAIN nodes)
           /\ \A id \in DOMAIN nodes :
                Cardinality({i \in 1..Len(ret.nodes) : ret.nodes[i] = nodes[id]}) = 1
           /\ Len(ret.edges) = Len(edges)
           /\ \A i \in 1..Len(edges) : ret.edges[i] = edges[i]
           /\ Len(ret.constraints) = Len(constraints)
           /\ \A i \in 1..Len(constraints) : ret.constraints[i] = constraints[i]
           /\ FromDict(ret).nodes = nodes
           /\ FromDict(ret).edges = edges
           /\ FromDict(ret).constraints = constraints
           /\ FromDict(ret).metadata = metadata
    /\ Returned("Graph.to_dict")
        => /\ DOMAIN ret = {"nodes", "edges"}
           /\ add_nodes(EmptyGraph.nodes, ret.nodes) = nodes
           /\ ret.edges = edges

C20_Witness ==
    /\ Returned("Diagram.to_dict")
    /\ DOMAIN nodes = {"a", "c"}
    /\ Len(written) = 3
    /\ Len(ret.nodes) = 2
    /\ ret.nodes[1] = NodeValue("c", "state", "L1")
    /\ Len(edges) = MaxEdges
    /\ edges[1] # edges[2]
    /\ ret.edges = edges
    /\ Len(constraints) = 2
    /\ constraints[1] # constraints[2]
    /\ ret.constraints = constraints

(***************************************************************************)
(* C21  remove_node(id) returns True exactly when id was a key of the node *)
(* map.  Then the map loses that key and nothing else, and the edge list   *)
(* is the previous one without the edges that have id as source or target, *)
(* the others in their order.  When it returns False the node map is as it *)
(* was.                                                                    *)
(***************************************************************************)
\* the positions of es whose edge has id as source or target
TouchingPositions(es, id) ==
    {i \in 1..Len(es) : es[i].source = id \/ es[i].target = id}

C21_RemoveNodeFrame ==
    Returned("remove_node")
    => LET id == call.node_id
       IN  /\ ret = (id \in DOMAIN before.nodes)
           /\ ret = TRUE
                => /\ DOMAIN nodes = (DOMAIN before.nodes) \ {id}
                   /\ \A other \in DOMAIN nodes : nodes[other] = before.nodes[other]
                   /\ edges = DeletePositions(before.edges,
                                              TouchingPositions(before.edges, id), 1)
           /\ ret = FALSE => nodes = before.nodes

C21_Witness ==
    /\ Returned("remove_node")
    /\ call.node_id = "a"
    /\ DOMAIN before.nodes = NodeIds
    /\ Len(before.edges) = 3
    /\ before.edges[1].source = "a"
    /\ before.edges[2] = Edge("b", "c", "causal", "flows_to")
    /\ before.edges[3].target = "a"
    /\ edges = <<before.edges[2]>>
    /\ DOMAIN nodes = {"b", "c"}
    /\ ret = TRUE

(***************************************************************************)
(* C22  Graph.remove_edge(source, target, operator) drops every edge with  *)
(* that source and that target (and, when an operator is given, with that  *)
(* operator), keeps all other edges in their order, leaves the node map    *)
(* alone and returns True exactly when the list became shorter.            *)
(***************************************************************************)
\* the positions of es the call names
NamedPositions(es, source, target, operator) ==
    {i \in 1..Len(es) :
        /\ es[i].source = source
        /\ es[i].target = target
        /\ (operator # None => es[i].operator = operator[1])}

C22_RemoveEdgeByEndpoints ==
    Returned("remove_edge")
    => LET named == NamedPositions(before.edges, call.source, call.target, call.operator)
       IN  /\ edges = DeletePositions(before.edges, named, 1)
           /\ nodes = before.nodes
           /\ ret = (named # {})
           /\ ret = (Len(edges) < Len(before.edges))

C22_Witness ==
    /\ Returned("remove_edge")
    /\ call.source = "a" /\ call.target = "b" /\ call.operator = Some("causes")
    /\ Len(before.edges) = 3
    /\ before.edges[1] = Edge("a", "b", "structural", "causes")
    /\ before.edges[2] = Edge("b", "c", "causal", "flows_to")
    /\ before.edges[3] = before.edges[1]
    /\ edges = <<before.edges[2]>>
    /\ ret = TRUE

(***************************************************************************)
(* C23  add_edge and add_edges only append: the edge list after the call   *)
(* is the list before it followed by the new edges in the order given.     *)
(* Edges already in the list or given twice are appended again, edges      *)
(* whose endpoints are no keys of the node map are accepted, and the node  *)
(* map is unchanged.                                                       *)
(***************************************************************************)
C23_AppendOnly ==
    (Returned("add_edge") \/ Returned("add_edges"))
    => /\ Len(edges) = Len(before.edges) + Len(call.edges)
       /\ \A i \in 1..Len(before.edges) : edges[i] = before.edges[i]
       /\ \A i \in 1..Len(call.edges) : edges[Len(before.edges) + i] = call.edges[i]
       /\ nodes = before.nodes

C23_Witness ==
    /\ Returned("add_edges")
    /\ call.edges = <<Edge("c", "a", "process", "causes"), Edge("c", "a", "process", "causes")>>
    /\ before.nodes = [id \in {"b"} |-> Node(id, "L1")]
    /\ before.edges = <<Edge("a", "b", "structural", "causes"),
                        Edge("c", "a", "process", "causes")>>
    /\ Len(edges) = 4
    /\ edges[2] = edges[3] /\ edges[3] = edges[4]

(***************************************************************************)
(* C24  reverse_edge with a position p in 1..len(edges) exchanges source   *)
(* and target of the edge at p and changes nothing else: the list keeps    *)
(* its length and order, the edge its family and operator, every other     *)
(* edge and the node map stay as they were.  With no position or one       *)
(* outside 1..len(edges) it fails and nodes and edges are unchanged.       *)
(***************************************************************************)
IsAction(instruction, action) == instruction.action = action

\* the instruction names a position (a number) inside es
InRange(instruction, es) ==
    /\ instruction.edge_id.kind = "int"
    /\ instruction.edge_id.val >= 1
    /\ instruction.edge_id.val <= Len(es)

\* the instruction names no position, or a number outside es
OutOfRange(instruction, es) ==
    \/ instruction.edge_id.kind = "none"
    \/ instruction.edge_id.kind = "int"
        /\ (instruction.edge_id.val < 1 \/ instruction.edge_id.val > Len(es))

Untouched == nodes = before.nodes /\ edges = before.edges

C24_ReverseEdgeFrame ==
    (Returned("apply_instruction") /\ IsAction(call.instructions[1], "reverse_edge"))
    => LET instruction == call.instructions[1]
           p == instruction.edge_id.val
       IN  /\ InRange(instruction, before.edges)
                => /\ ret = TRUE
                   /\ LastEntry.status = "applied"
                   /\ nodes = before.nodes
                   /\ Len(edges) = Len(before.edges)
                   /\ edges[p].source = before.edges[p].target
                   /\ edges[p].target = before.edges[p].source
                   /\ edges[p].family = before.edges[p].family
                   /\ edges[p].operator = before.edges[p].operator
                   /\ \A i \in (1..Len(edges)) \ {p} : edges[i] = before.edges[i]
           /\ OutOfRange(instruction, before.edges)
                => /\ ret = FALSE
                   /\ LastEntry.status = "failed"
                   /\ Untouched

C24_Witness ==
    /\ Returned("apply_instruction")
    /\ call.instructions[1] = ReverseEdge(2)
    /\ before.edges = <<Edge("a", "b", "structural", "causes"),
                        Edge("b", "c", "causal", "flows_to"),
                        Edge("c", "a", "process", "causes")>>
    /\ edges = <<Edge("a", "b", "structural", "causes"),
                 Edge("c", "b", "causal", "flows_to"),
                 Edge("c", "a", "process", "causes")>>
    /\ nodes = before.nodes

(***************************************************************************)
(* C25  change_relation with a position p in 1..len(edges) and a new       *)
(* operator given overwrites the operator of the edge at p and nothing     *)
(* else.  With no position, a position outside 1..len(edges), or no new    *)
(* operator it fails and nodes and edges are unchanged.                    *)
(***************************************************************************)
C25_ChangeRelationFrame ==
    (Returned("apply_instruction") /\ IsAction(call.instructions[1], "change_relation"))
    => LET instruction == call.instructions[1]
           p == instruction.edge_id.val
       IN  /\ (InRange(instruction, before.edges) /\ instruction.new_relation # None)
                => /\ ret = TRUE
                   /\ LastEntry.status = "applied"
                   /\ nodes = before.nodes
                   /\ Len(edges) = Len(before.edges)
                   /\ edges[p].operator = instruction.new_relation[1]
                   /\ edges[p].source = before.edges[p].source
                   /\ edges[p].target = before.edges[p].target
                   /\ edges[p].family = before.edges[p].family
                   /\ \A i \in (1..Len(edges)) \ {p} : edges[i] = before.edges[i]
           /\ (OutOfRange(instruction, before.edges)
                    \/ (InRange(instruction, before.edges) /\ instruction.new_relation = None))
                => /\ ret = FALSE
                   /\ LastEntry.status = "failed"
                   /\ Untouched

C25_Witness ==
    /\ Returned("apply_instruction")
    /\ call.instructions[1] = ChangeRelation(1, "flows_to")
    /\ Len(before.edges) = 2
    /\ before.edges[1] = Edge("a", "b", "structural", "causes")
    /\ edges[1] = Edge("a", "b", "structural", "flows_to")
    /\ edges[2] = before.edges[2]
    /\ LastEntry.old_relation = "causes"

(***************************************************************************)
(* C26  rename_node with a node_id that is a key of the node map and a new *)
(* label given overwrites the label of that node and nothing else: its id  *)
(* and type, every other node and the edge list stay as they were.  With   *)
(* a node_id that is missing or no key, or with no new label, it fails     *)
(* and nodes and edges are unchanged.                                      *)
(***************************************************************************)
\* node_id is given and a key of ns
NamesNode(instruction, ns) ==
    instruction.node_id # None /\ instruction.node_id[1] \in DOMAIN ns

C26_RenameNodeFrame ==
    (Returned("apply_instruction") /\ IsAction(call.instructions[1], "rename_node"))
    => LET instruction == call.instructions[1]
       IN  /\ (NamesNode(instruction, before.nodes) /\ instruction.new_label # None)
                => LET id == instruction.node_id[1]
                   IN  /\ ret = TRUE
                       /\ LastEntry.status = "applied"
                       /\ DOMAIN nodes = DOMAIN before.nodes
                       /\ nodes[id].label = instruction.new_label[1]
                       /\ nodes[id].id = before.nodes[id].id
                       /\ nodes[id].type = before.nodes[id].type
                       /\ \A other \in (DOMAIN nodes) \ {id} : nodes[other] = before.nodes[other]
                       /\ edges = before.edges
           /\ (~NamesNode(instruction, before.nodes) \/ instruction.new_label = None)
                => /\ ret = FALSE
                   /\ LastEntry.status = "failed"
                   /\ Untouched

C26_Witness ==
    /\ Returned("apply_instruction")
    /\ call.instructions[1] = RenameNode("b", "L2")
    /\ DOMAIN before.nodes = {"a", "b"}
    /\ before.nodes["b"] = Node("b", "L1")
    /\ nodes["b"] = Node("b", "L2")
    /\ nodes["a"] = Node("a", "L1")
    /\ Len(edges) = 2
    /\ edges = before.edges
    /\ LastEntry.old_label = "L1"

(***************************************************************************)
(* C27  The running warning list is empty before the first round, and      *)
(* every round appends the warnings of its response, in their order, to    *)
(* the list as it was: also the round whose batch halts.  No other step    *)
(* changes the list, so it always is the concatenation, in round order, of *)
(* the warnings of all responses received.                                 *)
(***************************************************************************)
WarningsStep ==
    /\ calls' = calls + 1
        => all_warnings' = all_warnings \o validator_response'.warnings
    /\ calls' = calls => all_warnings' = all_warnings
    /\ calls' \in {calls, calls + 1}

C27_WarningsAccumulate ==
    /\ [](calls = 0 => all_warnings = <<>>)
    /\ [][WarningsStep]_vars

C27_Witness ==
    /\ pc = "failed"
    /\ calls = 2
    /\ validator_response.warnings = <<Warning(Some("a"), NoEdgeId, "m1")>>
    /\ all_warnings = << Warning(None, IntEdgeId(1), "m2"), Warning(None, NoEdgeId, "m3"),
                         Warning(Some("a"), NoEdgeId, "m1") >>

(***************************************************************************)
(* C28  The edge listing (__str__, get_all_edges) of a graph with an edge  *)
(* whose source or target is no key of the node map is produced without a  *)
(* failure: one line per edge, numbered from 1 in graph order, with the    *)
(* label of each endpoint that is a key and a fallback for each one that   *)
(* is not.                                                                 *)
(***************************************************************************)
HasDanglingEdge ==
    \E i \in 1..Len(edges) :
        edges[i].source \notin DOMAIN nodes \/ edges[i].target \notin DOMAIN nodes

\* what a line shows for the endpoint id: its label, or something else
ShowsEndpoint(shown, id) ==
    IF id \in DOMAIN nodes THEN shown = nodes[id].label ELSE shown # ""

C28_ListingFallback ==
    ((Returned("__str__") \/ Returned("get_all_edges")) /\ HasDanglingEdge)
    => /\ ret.status = "ok"
       /\ Len(ret.lines) = Len(edges)
       /\ \A i \in 1..Len(ret.lines) :
            /\ ret.lines[i].index = i
            /\ ret.lines[i].operator = edges[i].operator
            /\ ShowsEndpoint(ret.lines[i].source, edges[i].source)
            /\ ShowsEndpoint(ret.lines[i].target, edges[i].target)

(***************************************************************************)
(* C29  apply_instruction returns True exactly when the entry it appends   *)
(* has status "applied".  The status of the entry is one of applied,       *)
(* failed, error: "error" exactly for flag_error and for an exception      *)
(* caught while applying (an edge position that is no number), "failed"    *)
(* for an unknown action, for a missing or out-of-range position or node,  *)
(* for a missing new value and for a merge of a node into itself.          *)
(***************************************************************************)
EdgeActions == {"reverse_edge", "remove_edge", "change_relation"}

KnownActions == EdgeActions \cup {"merge_nodes", "rename_node", "flag_error"}

\* the comparison of the position with 1 raises
ExceptionCaught(instruction) ==
    instruction.action \in EdgeActions /\ instruction.edge_id.kind = "str"

\* something the instruction needs is missing or names nothing in the graph
FailsValidation(instruction, ns, es) ==
    \/ instruction.action \in EdgeActions /\ OutOfRange(instruction, es)
    \/ IsAction(instruction, "change_relation")
        /\ instruction.edge_id.kind # "str" /\ instruction.new_relation = None
    \/ IsAction(instruction, "merge_nodes")
        /\ (~InNodes(instruction.source_node_id, ns) \/ ~InNodes(instruction.target_node_id, ns))
    \/ IsAction(instruction, "rename_node")
        /\ (~InNodes(instruction.node_id, ns) \/ instruction.new_label = None)

\* a merge of a node into itself
ViolatesPolicy(instruction, ns) ==
    /\ IsAction(instruction, "merge_nodes")
    /\ InNodes(instruction.source_node_id, ns)
    /\ instruction.source_node_id = instruction.target_node_id

C29_ReturnMatchesOutcome ==
    (Returned("apply_instruction") \/ ReturnedAgain)
    => LET instruction == call.instructions[1]
       IN  /\ Len(audit_log) = Len(before.audit_log) + 1
           /\ (ret = TRUE) <=> (LastEntry.status = "applied")
           /\ LastEntry.status \in {"applied", "failed", "error"}
           /\ (LastEntry.status = "error")
                <=> (IsFlagError(instruction) \/ ExceptionCaught(instruction))
           /\ (LastEntry.status = "failed")
                <=> \/ instruction.action \notin KnownActions
                    \/ FailsValidation(instruction, before.nodes, before.edges)
                    \/ ViolatesPolicy(instruction, before.nodes)

C29_Witness ==
    /\ ReturnedAgain
    /\ call.instructions[1].action = "reverse_edge"
    /\ call.instructions[1].edge_id = StrEdgeId
    /\ Len(edges) = 1
    /\ Len(audit_log) = 2
    /\ audit_log[1].status = "error"
    /\ LastEntry.status = "error"
    /\ ret = FALSE

(***************************************************************************)
(* C30  Referential integrity is closed under the correction engine: from  *)
(* a graph whose every edge endpoint is a key of the node map, after any   *)
(* sequence of apply_instruction, apply_validator_response and remove_node *)
(* calls every edge endpoint is still a key of the node map.               *)
(***************************************************************************)
C30_IntegrityClosed ==
    /\ EndpointsIn(before.nodes, before.edges)
    /\ EndpointsIn(nodes, edges)

C30_Witness ==
    /\ Returned("remove_node")
    /\ call.node_id = "c"
    /\ initial.nodes = AllNodes
    /\ initial.edges = <<PoolSeq[2], PoolSeq[1]>>
    /\ DOMAIN before.nodes = {"b", "c"}
    /\ before.edges = <<PoolSeq[2], Edge("b", "b", "structural", "causes")>>
    /\ DOMAIN nodes = {"b"}
    /\ edges = <<Edge("b", "b", "structural", "causes")>>

(***************************************************************************)
(* C31  No instruction adds a node or an edge.  Over every call of         *)
(* apply_instruction or apply_validator_response in any sequence of calls  *)
(* the edge count falls by exactly the number of remove_edge entries       *)
(* applied in the call and the node count by exactly the number of         *)
(* merge_nodes entries applied in it, so neither count ever rises.  An     *)
(* applied merge_nodes keeps the number and the order of the edges, also   *)
(* where it turns an edge between source and target into a self-loop.      *)
(***************************************************************************)
EngineReturned ==
    Returned("apply_instruction") \/ Returned("apply_validator_response")

\* the entries of the latest call that record an applied instruction of
\* the given action
AppliedEntries(action) ==
    {i \in 1..Len(audit_log) :
        audit_log[i].action = action /\ audit_log[i].status = "applied"}

Renamed(id, source_node_id, target_node_id) ==
    IF id = source_node_id THEN target_node_id ELSE id

C31_CountsNeverRise ==
    /\ EngineReturned
        => /\ Len(edges) <= Len(before.edges)
           /\ Cardinality(DOMAIN nodes) <= Cardinality(DOMAIN before.nodes)
           /\ Len(before.edges) - Len(edges) = Cardinality(AppliedEntries("remove_edge"))
           /\ Cardinality(DOMAIN before.nodes) - Cardinality(DOMAIN nodes)
                = Cardinality(AppliedEntries("merge_nodes"))
    /\ (Returned("apply_instruction") /\ IsMerge(call.instructions[1]) /\ ret = TRUE)
        => /\ Len(edges) = Len(before.edges)
           /\ \A i \in 1..Len(edges) :
                LET s == call.instructions[1].source_node_id[1]
                    t == call.instructions[1].target_node_id[1]
                IN  /\ edges[i].family = before.edges[i].family
                    /\ edges[i].operator = before.edges[i].operator
                    /\ edges[i].source = Renamed(before.edges[i].source, s, t)
                    /\ edges[i].target = Renamed(before.edges[i].target, s, t)

C31_Witness ==
    /\ Returned("apply_instruction")
    /\ call.instructions[1] = MergeNodes("a", "b")
    /\ ret = TRUE
    /\ before.edges = <<PoolSeq[2], PoolSeq[1]>>
    /\ edges = <<PoolSeq[2], Edge("b", "b", "structural", "causes")>>
    /\ DOMAIN before.nodes = {"a", "b", "c"}
    /\ DOMAIN nodes = {"b", "c"}

(***************************************************************************)
(* C32  A batch whose two remove_edge instructions name the same valid     *)
(* position p: both are applied, one after the other, to the live list.    *)
(* With p below the length of the list before the batch the edges that     *)
(* stood at p and p + 1 are removed and both entries are "applied"; with p *)
(* the last position only that edge is removed and the second instruction  *)
(* fails with an "Invalid edge_id" entry.  The other instructions of the   *)
(* batch run afterwards on the list so shortened.                          *)
(***************************************************************************)
\* the removals of the batch are two, both naming position p, valid in es
NamesTwice(batch, p, es) ==
    /\ p \in 1..Len(es)
    /\ Cardinality({i \in 1..Len(batch) : IsRemoveEdge(batch[i])}) = 2
    /\ \A i \in 1..Len(batch) : IsRemoveEdge(batch[i]) => batch[i].edge_id = IntEdgeId(p)

C32_SamePositionTwice ==
    Returned("apply_validator_response")
    => \A p \in 1..Len(before.edges) :
        NamesTwice(call.instructions, p, before.edges)
        => LET n == Len(before.audit_log)
               below == p < Len(before.edges)
               live == DeletePositions(before.edges, IF below THEN {p, p + 1} ELSE {p}, 1)
               rest == apply_validator_response(before.nodes, live,
                                                SelectSeq(call.instructions, IsOther), <<>>)
           IN  /\ Len(audit_log) >= n + 2
               /\ audit_log[n + 1].action = "remove_edge"
               /\ audit_log[n + 1].status = "applied"
               /\ audit_log[n + 2].action = "remove_edge"
               /\ below => audit_log[n + 2].status = "applied"
               /\ ~below => /\ audit_log[n + 2].status = "failed"
                            /\ audit_log[n + 2].reason = "Invalid edge_id"
               /\ edges = rest.edges
               /\ nodes = rest.nodes
               /\ Len(call.instructions) = 2
                    => /\ Len(edges) = Len(before.edges) - (IF below THEN 2 ELSE 1)
                       /\ nodes = before.nodes
                       /\ ret = TRUE

C32_Witness ==
    /\ Returned("apply_validator_response")
    /\ call.instructions = <<RemoveEdge(2), RemoveEdge(2)>>
    /\ Len(before.edges) = 3
    /\ before.edges[1] # before.edges[2]
    /\ before.edges[2] # before.edges[3]
    /\ edges = <<before.edges[1]>>
    /\ Len(audit_log) = 2
    /\ audit_log[2].status = "applied"

(***************************************************************************)
(* C33  reverse_edge is an involution: reverse_edge with one valid         *)
(* position applied twice in a row gives back exactly the nodes and edges  *)
(* of before the first call, the edge being reversed in between, and the   *)
(* audit log gains two "applied" entries.                                  *)
(***************************************************************************)
C33_ReverseTwiceRestores ==
    (ReturnedAgain
        /\ IsAction(call.instructions[1], "reverse_edge")
        /\ InRange(call.instructions[1], initial.edges))
    => LET p == call.instructions[1].edge_id.val
           n == Len(initial.audit_log)
       IN  /\ nodes = initial.nodes
           /\ edges = initial.edges
           /\ before.edges[p].source = initial.edges[p].target
           /\ before.edges[p].target = initial.edges[p].source
           /\ Len(audit_log) = n + 2
           /\ SubSeq(audit_log, 1, n) = initial.audit_log
           /\ \A i \in {n + 1, n + 2} :
                /\ audit_log[i].action = "reverse_edge"
                /\ audit_log[i].status = "applied"
                /\ audit_log[i].edge_id = p
           /\ ret = TRUE

C33_Witness ==
    /\ ReturnedAgain
    /\ call.instructions[1] = ReverseEdge(1)
    /\ initial.edges = <<Edge("a", "b", "structural", "causes"),
                         Edge("b", "c", "causal", "flows_to")>>
    /\ before.edges = <<Edge("b", "a", "structural", "causes"),
                        Edge("b", "c", "causal", "flows_to")>>
    /\ edges = initial.edges
    /\ Len(audit_log) = Len(initial.audit_log) + 2
    /\ LastEntry.status = "applied"

====
